---------------------------- MODULE Spec2Model ----------------------------
(***************************************************************************)
(* A model of the carver-feeds SDK: the HTTP transport of                  *)
(* CarverFeedsAPIClient (one request with retry and backoff, offset/limit  *)
(* pagination) and the lazily loaded, chainable EntryQueryEngine on top of *)
(* FeedsDataManager.get_hierarchical_view.                                 *)
(*                                                                         *)
(* The specifications share the variables:                                 *)
(*   SpecRequest   one client, calls of _make_request                      *)
(*   SpecRequestLive   the same, where every attempt sent comes to an end  *)
(*   SpecPaginate  one client, calls of _paginate                          *)
(*   SpecPaginateAnyLimit  the same, with any page size a caller passes    *)
(*   SpecEngine    one query engine over a data manager and a backend      *)
(*   SpecFetchContent  the same engine, loaded by its filters and hydrated *)
(*   SpecTwoEngines    two engines on one data manager, calls interleaved  *)
(*   SpecCommute   two Loaded engines on one row set, filters in two orders*)
(*   SpecPaths     an Unloaded and a Loaded engine, one entity filter each *)
(*   SpecHydrate, SpecNormalize, SpecAnnotations, SpecFetcher,             *)
(*   SpecAssemble, SpecReconcile, SpecExtract                              *)
(*                 one call of a method that keeps no state of its own     *)
(* Each leaves the variables of the others at their initial values.        *)
(***************************************************************************)
EXTENDS Integers, Sequences, FiniteSets, TLC

VARIABLES
    \* ---- CarverFeedsAPIClient and one call of _make_request ----
    max_retries,          \* self.max_retries
    initial_retry_delay,  \* self.initial_retry_delay, in ticks of 1/4 s
    rq_pc,                \* "idle", "sending", "returned", "raised"
    retry_count,          \* the retry_count argument of the running frame
    attempts,             \* history: session.request calls of this call
    statuses,             \* history: the status each attempt received, in
                          \* order (NoResponse when session.request raised)
    last_text,            \* history: response.text of the latest response
    delays,               \* history: the time.sleep arguments, in order
    rq_result,            \* what the call returned or raised
    \* ---- one call of _paginate ----
    pg_pc,                \* "idle", "fetching", "returned", "raised"
    pg_limit,             \* the limit argument (page size)
    pg_fetch_all,         \* the fetch_all argument
    pg_total,             \* records the backend holds for the endpoint
    offset,               \* the local offset
    all_results,          \* the local all_results
    page_requests,        \* history: the page_params of each _make_request
    pg_result,            \* what the call returned or raised
    \* ---- EntryQueryEngine, its data manager's backend, and the caller ----
    published,            \* backend: the entries the API currently serves
    _results,             \* self._results: None or a DataFrame
    _initial_data_loaded, \* self._initial_data_loaded
    caller_df,            \* the caller's variable: None or the DataFrame that
                          \* the latest to_dataframe returned
    shared,               \* caller_df and self._results are one object
    other_engine,         \* a second EntryQueryEngine on the same data
                          \* manager: its _results and _initial_data_loaded
    last_op,              \* history: the latest engine operation
    last_export,          \* history: the rows the latest to_dataframe
                          \* returned, while no filter was called since
    \* ---- one call of a method that keeps no state of its own ----
    fn_pc,                \* "idle", the step the call has reached,
                          \* "returned", "raised"
    fn_args,              \* the arguments of the call
    fn_local,             \* the locals of the running call
    fn_calls,             \* history: the calls made to collaborators
    fn_result             \* what the call returned or raised

rq_vars == <<max_retries, initial_retry_delay, rq_pc, retry_count, attempts,
             statuses, last_text, delays, rq_result>>
pg_vars == <<pg_pc, pg_limit, pg_fetch_all, pg_total, offset, all_results,
             page_requests, pg_result>>
qe_vars == <<published, _results, _initial_data_loaded, caller_df, shared,
             other_engine, last_op, last_export>>
fn_vars == <<fn_pc, fn_args, fn_local, fn_calls, fn_result>>
vars == <<rq_vars, pg_vars, qe_vars, fn_vars>>

None == "None"

(***************************************************************************)
(* Bounds of the model.                                                    *)
(***************************************************************************)
MaxRetriesBound == 3   \* max_retries ranges over 0..MaxRetriesBound
MaxTotal == 5          \* the backend holds 0..MaxTotal records
MaxLimit == 3          \* page sizes 1..MaxLimit

(***************************************************************************)
(* Program constants.                                                      *)
(***************************************************************************)
DEFAULT_MAX_RETRIES == 3
RETRY_BACKOFF_FACTOR == 2

(***************************************************************************)
(* Transport: _make_request.                                               *)
(***************************************************************************)
\* One tick is a quarter of a second: the default initial_retry_delay of
\* 1.0 s is 4 ticks, and 2.0 s is 8.  __init__ stores the value it is given
\* unvalidated: 0 is among those a caller may pass.
InitialDelays == {0, 4, 8}

\* The HTTP statuses the server may answer with: success, authentication
\* failure, rate limit, two server errors, and two statuses of no other class.
Statuses == {200, 401, 429, 500, 503, 404, 204}
\* response.text: two bodies that are JSON texts, and two that are not (the
\* empty body among them).
JsonBodies == {"b1", "b2"}
Bodies == JsonBodies \cup {"not json", ""}
\* Whether response.json() parses the body (it raises JSONDecodeError, a
\* requests.exceptions.RequestException, when it does not).
ParsesAsJson(text) == text \in JsonBodies
\* requests.exceptions raised by session.request instead of a response.
TransportFailures == {"ConnectionError", "Timeout", "RequestException"}
\* The entry of statuses for an attempt that got no response.
NoResponse == 0

RECURSIVE Pow(_, _)
Pow(b, e) == IF e = 0 THEN 1 ELSE b * Pow(b, e - 1)

\* random.uniform(0, delay * 0.25): every tick of the closed interval.
Jitter(delay) == 0 .. (delay \div 4)

\* Mutant: the jitter is subtracted from the delay instead of added.
_calculate_backoff_delay_minus(initial, rc) ==
    LET delay == initial * Pow(RETRY_BACKOFF_FACTOR, rc)
    IN  {delay - jitter : jitter \in Jitter(delay)}

\* Mutant: the jitter is up to the whole delay.
_calculate_backoff_delay_wide(initial, rc) ==
    LET delay == initial * Pow(RETRY_BACKOFF_FACTOR, rc)
    IN  {delay + jitter : jitter \in 0..delay}

\* _calculate_backoff_delay: the delays it may return for retry_count rc.
_calculate_backoff_delay(initial, rc) ==
    LET delay == initial * Pow(RETRY_BACKOFF_FACTOR, rc)
    IN  {delay + jitter : jitter \in Jitter(delay)}

NoResult == [kind |-> "none"]
Returned(payload) == [kind |-> "return", payload |-> payload]
\* An exception: its class, and what its message or cause embeds.
Raised(error, status, text, cause) ==
    [kind |-> "raise", error |-> error, status |-> status, text |-> text,
     cause |-> cause]

\* A call of _make_request by a caller (retry_count defaults to 0).
Call_make_request ==
    /\ rq_pc \in {"idle", "returned", "raised"}
    /\ rq_pc' = "sending"
    /\ retry_count' = 0
    /\ attempts' = 0
    /\ statuses' = <<>>
    /\ last_text' = None
    /\ delays' = <<>>
    /\ rq_result' = NoResult
    /\ UNCHANGED <<max_retries, initial_retry_delay, pg_vars, qe_vars, fn_vars>>

\* The frame ends: the call returns or raises r.
Finish(r) ==
    /\ rq_pc' = IF r.kind = "return" THEN "returned" ELSE "raised"
    /\ rq_result' = r
    /\ UNCHANGED <<retry_count, delays>>

\* Mutant: the recursive call is made with the same retry_count.
SleepAndRetry_same_count(delay) ==
    /\ delays' = Append(delays, delay)
    /\ retry_count' = retry_count
    /\ rq_pc' = "sending"
    /\ UNCHANGED rq_result

\* time.sleep(delay), then the recursive call with retry_count + 1.
SleepAndRetry(delay) ==
    /\ delays' = Append(delays, delay)
    /\ retry_count' = retry_count + 1
    /\ rq_pc' = "sending"
    /\ UNCHANGED rq_result

\* session.request returned a response: the bookkeeping of one attempt.
Received(status, text) ==
    /\ rq_pc = "sending"
    /\ attempts' = attempts + 1
    /\ statuses' = Append(statuses, status)
    /\ last_text' = text
    /\ UNCHANGED <<max_retries, initial_retry_delay, pg_vars, qe_vars, fn_vars>>

\* status_code == 200: return response.json(); when the body does not parse,
\* the JSONDecodeError is caught by `except RequestException` and
\* CarverAPIError is raised from it.
Respond200 ==
    \E text \in Bodies :
        /\ Received(200, text)
        /\ IF ParsesAsJson(text)
              THEN Finish(Returned(text))
              ELSE Finish(Raised("CarverAPIError", None, None,
                                 "JSONDecodeError"))

\* Mutant: a 401 is retried like a 429.
Respond401_retried ==
    \E text \in Bodies :
        /\ Received(401, text)
        /\ IF retry_count < max_retries
              THEN \E delay \in _calculate_backoff_delay(initial_retry_delay,
                                                          retry_count) :
                       SleepAndRetry(delay)
              ELSE Finish(Raised("AuthenticationError", None, None, None))

\* status_code == 401: raise AuthenticationError.
Respond401 ==
    \E text \in Bodies :
        /\ Received(401, text)
        /\ Finish(Raised("AuthenticationError", None, None, None))

\* Mutant: the retry test is off by one (max_retries attempts in all).
Respond429_off_by_one ==
    \E text \in Bodies :
        /\ Received(429, text)
        /\ IF retry_count + 1 < max_retries
              THEN \E delay \in _calculate_backoff_delay(initial_retry_delay,
                                                          retry_count) :
                       SleepAndRetry(delay)
              ELSE Finish(Raised("RateLimitError", None, None, None))

\* status_code == 429: back off and retry, or raise RateLimitError.
Respond429 ==
    \E text \in Bodies :
        /\ Received(429, text)
        /\ IF retry_count < max_retries
              THEN \E delay \in _calculate_backoff_delay(initial_retry_delay,
                                                          retry_count) :
                       SleepAndRetry(delay)
              ELSE Finish(Raised("RateLimitError", None, None, None))

\* Mutant: an exhausted 5xx raises the error of the 429 branch.
Respond5xx_as_rate_limit ==
    \E status \in {st \in Statuses : st >= 500}, text \in Bodies :
        /\ Received(status, text)
        /\ IF retry_count < max_retries
              THEN \E delay \in _calculate_backoff_delay(initial_retry_delay,
                                                          retry_count) :
                       SleepAndRetry(delay)
              ELSE Finish(Raised("RateLimitError", None, None, None))

\* status_code >= 500: back off and retry, or raise CarverAPIError.
Respond5xx ==
    \E status \in {st \in Statuses : st >= 500}, text \in Bodies :
        /\ Received(status, text)
        /\ IF retry_count < max_retries
              THEN \E delay \in _calculate_backoff_delay(initial_retry_delay,
                                                          retry_count) :
                       SleepAndRetry(delay)
              ELSE Finish(Raised("CarverAPIError", status, text, None))

\* Mutant: every status that is not 200 or 401 is retried.
RespondOther_retried ==
    \E status \in {st \in Statuses : st \notin {200, 401, 429} /\ st < 500},
       text \in Bodies :
        /\ Received(status, text)
        /\ IF retry_count < max_retries
              THEN \E delay \in _calculate_backoff_delay(initial_retry_delay,
                                                          retry_count) :
                       SleepAndRetry(delay)
              ELSE Finish(Raised("CarverAPIError", status, text, None))

\* Any other status: raise CarverAPIError.
RespondOther ==
    \E status \in {st \in Statuses : st \notin {200, 401, 429} /\ st < 500},
       text \in Bodies :
        /\ Received(status, text)
        /\ Finish(Raised("CarverAPIError", status, text, None))

\* session.request raises a requests exception: raise CarverAPIError from it.
TransportFailure ==
    \E exc \in TransportFailures :
        /\ rq_pc = "sending"
        /\ attempts' = attempts + 1
        /\ statuses' = Append(statuses, NoResponse)
        /\ last_text' = None
        /\ Finish(Raised("CarverAPIError", None, None, exc))
        /\ UNCHANGED <<max_retries, initial_retry_delay, pg_vars, qe_vars,
                       fn_vars>>

Next_make_request ==
    \/ Call_make_request
    \/ Respond200
    \/ Respond401
    \/ Respond429
    \/ Respond5xx
    \/ RespondOther
    \/ TransportFailure

(***************************************************************************)
(* Transport: _paginate.                                                   *)
(***************************************************************************)
Min(a, b) == IF a < b THEN a ELSE b

\* The records of the endpoint, in backend order: record i is the number i.
BackendRecords(total) == [i \in 1..total |-> i]

\* What a backend that honours limit and offset serves for page_params.
BackendPage(total, limit, off) ==
    IF off >= total THEN <<>>
    ELSE SubSeq(BackendRecords(total), off + 1, Min(off + limit, total))

\* The JSON shapes of a page: a bare array, or an object holding the
\* records under one conventional key.
Shapes == {"list", "results", "data", "items"}
JsonPage(shape, page) ==
    IF shape = "list" THEN [kind |-> "list", value |-> page]
    ELSE [kind |-> "dict", value |-> [k \in {shape} |-> page]]

\* _paginate's extraction of the record list from a response.
ExtractResults(response) ==
    IF response.kind = "list" THEN response.value
    ELSE IF response.kind = "dict"
        THEN IF "results" \in DOMAIN response.value
                 THEN response.value["results"]
             ELSE IF "data" \in DOMAIN response.value
                 THEN response.value["data"]
             ELSE IF "items" \in DOMAIN response.value
                 THEN response.value["items"]
             ELSE <<>>
    ELSE <<>>

\* The errors a call of _make_request may end with.
ApiErrors == {"AuthenticationError", "RateLimitError", "CarverAPIError"}

\* A call of _paginate(endpoint, params, limit, fetch_all).
Call_paginate ==
    /\ pg_pc \in {"idle", "returned", "raised"}
    /\ \E limit \in 1..MaxLimit, fetch_all \in BOOLEAN, total \in 0..MaxTotal :
          /\ pg_limit' = limit
          /\ pg_fetch_all' = fetch_all
          /\ pg_total' = total
    /\ pg_pc' = "fetching"
    /\ offset' = 0
    /\ all_results' = <<>>
    /\ page_requests' = <<>>
    /\ pg_result' = NoResult
    /\ UNCHANGED <<rq_vars, qe_vars, fn_vars>>

\* Mutant: the fetch_all test is dropped from the loop's exit.
ContinuePaging_ignores_fetch_all(fetch_all, results, limit) ==
    ~ (Len(results) < limit)

\* Mutant: the loop goes on until a page comes back empty.
ContinuePaging_until_empty(fetch_all, results, limit) ==
    ~ (~fetch_all \/ Len(results) = 0)

\* Whether the loop goes on after a page of `results`.
ContinuePaging(fetch_all, results, limit) ==
    ~ (~fetch_all \/ Len(results) < limit)

\* One iteration of the while loop whose _make_request returns.
FetchPage ==
    /\ pg_pc = "fetching"
    /\ \E shape \in Shapes :
         LET page_params == [limit |-> pg_limit, offset |-> offset]
             response == JsonPage(shape,
                             BackendPage(pg_total, page_params.limit,
                                         page_params.offset))
             results == ExtractResults(response)
         IN  /\ page_requests' = Append(page_requests, page_params)
             /\ all_results' = all_results \o results
             /\ IF ContinuePaging(pg_fetch_all, results, pg_limit)
                   THEN /\ offset' = offset + pg_limit
                        /\ UNCHANGED <<pg_pc, pg_result>>
                   ELSE /\ pg_pc' = "returned"
                        /\ pg_result' = Returned(all_results')
                        /\ UNCHANGED offset
    /\ UNCHANGED <<pg_limit, pg_fetch_all, pg_total, rq_vars, qe_vars,
                   fn_vars>>

\* One iteration whose _make_request raises: the error leaves _paginate.
FetchPageRaises ==
    /\ pg_pc = "fetching"
    /\ \E error \in ApiErrors :
          /\ page_requests' = Append(page_requests,
                                     [limit |-> pg_limit, offset |-> offset])
          /\ pg_pc' = "raised"
          /\ pg_result' = Raised(error, None, None, None)
    /\ UNCHANGED <<pg_limit, pg_fetch_all, pg_total, offset, all_results,
                   rq_vars, qe_vars, fn_vars>>

Next_paginate ==
    \/ Call_paginate
    \/ FetchPage
    \/ FetchPageRaises

(***************************************************************************)
(* The backend behind the data manager: topics, feeds and entries.         *)
(* Text is a sequence of characters, so that substring search is computed. *)
(***************************************************************************)
\* A null text cell (None / NaN in a DataFrame).
NullText == <<"<null>">>
\* A null timestamp (NaT); timestamps are the days 1, 2, 3.
NaT == 0

\* GET /api/v1/feeds/topics, in the order served.
Topics ==
    << [id |-> "t1", name |-> <<"A", "b">>],
       [id |-> "t2", name |-> <<"a", "b", "c">>] >>

\* GET /api/v1/feeds/, in the order served, with the nested topic flattened
\* to topic_id. Feed f4 names a topic that the topic list does not hold.
Feeds ==
    << [id |-> "f1", name |-> <<"X", "a">>, topic_id |-> "t1"],
       [id |-> "f2", name |-> <<"x", "b">>, topic_id |-> "t1"],
       [id |-> "f3", name |-> <<"c">>, topic_id |-> "t2"],
       [id |-> "f4", name |-> <<"d">>, topic_id |-> "t9"] >>

\* An entry without extracted_metadata, and the metadata of one that has it.
NoMeta == <<>>
Meta(feed_id, topic_id) == <<[feed_id |-> feed_id, topic_id |-> topic_id]>>

\* Every entry the backend may serve under /api/v1/feeds/{feed_id}/entries,
\* in the order served; feed is the feed whose endpoint serves it.
\* is_active is "True", "False" or None (absent). The extracted_metadata of
\* e2 names a feed and a topic other than those it is served under, that
\* of e3 names its own feed and no topic.  Feed f3 serves two entries.
Entries ==
    << [id |-> "e1", feed |-> "f1", title |-> <<"a">>, link |-> <<"l">>,
        published_date |-> 1, is_active |-> "True",
        extracted_metadata |-> NoMeta],
       [id |-> "e2", feed |-> "f2", title |-> <<"b", "a">>, link |-> <<"l">>,
        published_date |-> 2, is_active |-> "False",
        extracted_metadata |-> Meta("f9", "t2")],
       [id |-> "e3", feed |-> "f3", title |-> <<"A", "b">>, link |-> <<"l">>,
        published_date |-> NaT, is_active |-> None,
        extracted_metadata |-> Meta("f3", None)],
       [id |-> "e4", feed |-> "f3", title |-> <<"c">>, link |-> <<"l">>,
        published_date |-> 3, is_active |-> "True",
        extracted_metadata |-> NoMeta] >>
EntryIds == {Entries[i].id : i \in 1..Len(Entries)}

(***************************************************************************)
(* Sequences and text.                                                     *)
(***************************************************************************)
RECURSIVE Flatten(_)
Flatten(ss) == IF ss = <<>> THEN <<>> ELSE Head(ss) \o Flatten(Tail(ss))

\* pandas fillna('') on a text cell.
FillNa(v) == IF v = NullText THEN <<>> ELSE v

Lower(c) ==
    IF c = "A" THEN "a" ELSE IF c = "B" THEN "b" ELSE IF c = "C" THEN "c"
    ELSE IF c = "X" THEN "x" ELSE c

\* str.contains(needle, case=...) for a needle of literal characters: the
\* needle occurs in hay at some position (the empty needle occurs in every
\* text, the empty one included).
StrContains(hay, needle, case) ==
    \E i \in 1..(Len(hay) - Len(needle) + 1) :
        \A j \in 1..Len(needle) :
            IF case THEN hay[i + j - 1] = needle[j]
            ELSE Lower(hay[i + j - 1]) = Lower(needle[j])

(***************************************************************************)
(* FeedsDataManager.get_hierarchical_view(include_entries=True).           *)
(***************************************************************************)
\* A DataFrame: its rows, and whether it has the hierarchy's columns at all
\* (pd.DataFrame() has none).
EmptyFrame == [has_columns |-> FALSE, rows |-> <<>>]
Frame(rows) == [has_columns |-> TRUE, rows |-> rows]

\* Mutant: a feed whose topic is unknown is kept, with an empty topic.
MergeTopicsFeeds_keeps_orphans ==
    [i \in 1..Len(Feeds) |->
        [topic |-> [id |-> Feeds[i].topic_id, name |-> NullText],
         feed |-> Feeds[i]]]

\* pd.merge(topics_df, feeds_df, on="topic_id", how="inner"): the feeds of
\* each topic, in topic order, then feed order.
MergeTopicsFeeds ==
    Flatten([i \in 1..Len(Topics) |->
        LET fs == SelectSeq(Feeds, LAMBDA f : f.topic_id = Topics[i].id)
        IN  [j \in 1..Len(fs) |-> [topic |-> Topics[i], feed |-> fs[j]]]])

\* Mutant: only the first entry a feed serves is kept.
get_feed_entries_first(pub, feed_id) ==
    LET served ==
            SelectSeq(Entries, LAMBDA e : e.feed = feed_id /\ e.id \in pub)
    IN  IF served = <<>> THEN <<>> ELSE <<Head(served)>>

\* api_client.get_feed_entries(feed_id): what the backend serves now.
get_feed_entries(pub, feed_id) ==
    SelectSeq(Entries, LAMBDA e : e.feed = feed_id /\ e.id \in pub)

\* _extract_metadata_fields: the entry with the feed_id and topic_id of its
\* extracted_metadata, when it has one, raised to the top level.
_extract_metadata_fields(entry) ==
    IF entry.extracted_metadata = NoMeta THEN entry
    ELSE [f \in DOMAIN entry \cup {"feed_id", "topic_id"} |->
             IF f = "feed_id" THEN entry.extracted_metadata[1].feed_id
             ELSE IF f = "topic_id" THEN entry.extracted_metadata[1].topic_id
             ELSE entry[f]]

\* Mutant: the feed and topic ids an entry brought in its metadata stay.
HierarchicalRow_keeps_metadata(entry, pair) ==
    [entry_id |-> entry.id,
     entry_title |-> entry.title,
     entry_link |-> entry.link,
     entry_content_markdown |-> NullText,
     entry_published_at |-> entry.published_date,
     entry_is_active |-> (entry.is_active # "False"),
     feed_id |-> IF "feed_id" \in DOMAIN entry
                     THEN entry.feed_id ELSE pair.feed.id,
     feed_name |-> pair.feed.name,
     topic_id |-> IF "topic_id" \in DOMAIN entry
                      THEN entry.topic_id ELSE pair.topic.id,
     topic_name |-> pair.topic.name]

\* One entry, after _extract_metadata_fields, stamped with the feed and
\* topic it was fetched for, normalised and renamed.
HierarchicalRow(entry, pair) ==
    [entry_id |-> entry.id,
     entry_title |-> entry.title,
     entry_link |-> entry.link,
     entry_content_markdown |-> NullText,
     entry_published_at |-> entry.published_date,
     entry_is_active |-> (entry.is_active # "False"),
     feed_id |-> pair.feed.id,
     feed_name |-> pair.feed.name,
     topic_id |-> pair.topic.id,
     topic_name |-> pair.topic.name]

\* Mutant: when both ids are given the topic id filters.
FeedsToFetch_topic_first(feed_id, topic_id) ==
    IF topic_id # None
        THEN SelectSeq(MergeTopicsFeeds, LAMBDA p : p.topic.id = topic_id)
    ELSE IF feed_id # None
        THEN SelectSeq(MergeTopicsFeeds, LAMBDA p : p.feed.id = feed_id)
    ELSE MergeTopicsFeeds

\* The joined table after the feed_id or topic_id filter: the feeds whose
\* entries are fetched, in table order.
FeedsToFetch(feed_id, topic_id) ==
    IF feed_id # None
        THEN SelectSeq(MergeTopicsFeeds, LAMBDA p : p.feed.id = feed_id)
    ELSE IF topic_id # None
        THEN SelectSeq(MergeTopicsFeeds, LAMBDA p : p.topic.id = topic_id)
    ELSE MergeTopicsFeeds

\* One turn of the loop: the entries served for the feed, each stamped
\* with the feed's and the topic's fields.
FeedRows(pub, pair) ==
    LET feed_entries == get_feed_entries(pub, pair.feed.id)
    IN  [j \in 1..Len(feed_entries) |->
            HierarchicalRow(_extract_metadata_fields(feed_entries[j]), pair)]

\* The table made of the entries gathered: pd.DataFrame() when there is
\* none.
AssembledFrame(all_entries) ==
    IF Len(all_entries) = 0 THEN EmptyFrame ELSE Frame(all_entries)

get_hierarchical_view(pub, feed_id, topic_id) ==
    LET hierarchy == FeedsToFetch(feed_id, topic_id)
        all_entries ==
            Flatten([i \in 1..Len(hierarchy) |-> FeedRows(pub, hierarchy[i])])
    IN  IF Len(hierarchy) = 0 THEN EmptyFrame
        ELSE AssembledFrame(all_entries)

\* pd.concat(frames, ignore_index=True).
Concat(frames) ==
    [has_columns |-> \E i \in 1..Len(frames) : frames[i].has_columns,
     rows |-> Flatten([i \in 1..Len(frames) |-> frames[i].rows])]

\* The rows, from the i-th on, whose place in the boolean mask holds TRUE.
RECURSIVE MaskedRows(_, _, _)
MaskedRows(rows, mask, i) ==
    IF i > Len(rows) THEN <<>>
    ELSE (IF mask[i] THEN <<rows[i]>> ELSE <<>>)
             \o MaskedRows(rows, mask, i + 1)

\* df[mask]: a new frame with the rows the mask keeps, in order.
Keep(df, mask) == [has_columns |-> df.has_columns,
                   rows |-> MaskedRows(df.rows, mask, 1)]

\* The data manager calls an engine operation makes, as recorded in last_op.
HvCall(feed_id, topic_id) ==
    [fn |-> "get_hierarchical_view", feed_id |-> feed_id,
     topic_id |-> topic_id]
DfCall(fn) == [fn |-> fn, feed_id |-> None, topic_id |-> None]

(***************************************************************************)
(* EntryQueryEngine.  self._results and the caller's variable each hold    *)
(* None or a DataFrame; `shared` tells whether the two are one object.     *)
(***************************************************************************)
\* None where a DataFrame may stand, and a DataFrame held there.
NoFrame == <<>>
Holding(df) == <<df>>
Held(slot) == slot[1]

\* Mutant: copy() hands back the object itself.
DataFrameCopy_alias(df) == [frame |-> df, same_object |-> TRUE]

\* DataFrame.copy(): another object holding the same rows.
DataFrameCopy(df) == [frame |-> df, same_object |-> FALSE]

NoExport == [valid |-> FALSE, rows |-> <<>>]

\* The record of one engine operation, taken as it ends: its name, the
\* arguments (kept for filter_by_topic and filter_by_feed), whether the
\* engine was Loaded when it began, how it ended, and the data manager
\* calls it made, in order.
OpRecord(name, args, calls, outcome, error) ==
    [name |-> name, args |-> args,
     was_loaded |-> _initial_data_loaded,
     calls |-> calls, outcome |-> outcome, error |-> error,
     failure |-> None, cause |-> None]

NoOp == [name |-> "init", args |-> <<>>, was_loaded |-> FALSE,
         calls |-> <<>>, outcome |-> "none", error |-> None,
         failure |-> None, cause |-> None]

\* What can fail inside a data manager method: the transport raises one of
\* the API errors, or the conversion of the payload raises something else.
ConversionFailures == {"ValueError"}
Failures == ApiErrors \cup ConversionFailures

\* Mutant: every failure is replaced by a CarverAPIError wrapping it.
DataManagerRaises_wraps_all(failure) ==
    [error |-> "CarverAPIError", cause |-> failure]

\* The except clauses of the data manager methods: a CarverAPIError (of any
\* subclass) is re-raised as it is, anything else is replaced by a
\* CarverAPIError raised from it.
DataManagerRaises(failure) ==
    IF failure \in ApiErrors
        THEN [error |-> failure, cause |-> None]
        ELSE [error |-> "CarverAPIError", cause |-> failure]

\* EntryQueryEngine.__init__: no row set, not loaded.
NewEngine == [_results |-> NoFrame, _initial_data_loaded |-> FALSE]

\* What every engine operation leaves alone.
QeFrame == UNCHANGED <<rq_vars, pg_vars, fn_vars, published>>

\* The operation ends without touching self._results or the flag.
EngineUnchanged ==
    UNCHANGED <<_results, _initial_data_loaded, caller_df, shared,
                other_engine>>

\* Mutant: the row set and the flag are attributes of the class, so the
\* assignment shows in every instance.
Assign_to_class(frame) ==
    /\ _results' = Holding(frame)
    /\ _initial_data_loaded' = TRUE
    /\ shared' = FALSE
    /\ other_engine' = [_results |-> Holding(frame),
                        _initial_data_loaded |-> TRUE]
    /\ UNCHANGED caller_df

\* self._results = frame (a new object); self._initial_data_loaded = True.
Assign(frame) ==
    /\ _results' = Holding(frame)
    /\ _initial_data_loaded' = TRUE
    /\ shared' = FALSE
    /\ UNCHANGED <<caller_df, other_engine>>

\* _ensure_data_loaded: the frame the operation then works on, and the data
\* manager calls it takes to have it.
EnsuredFrame ==
    IF _initial_data_loaded THEN Held(_results)
    ELSE get_hierarchical_view(published, None, None)
EnsureCalls ==
    IF _initial_data_loaded THEN <<>> ELSE <<HvCall(None, None)>>

\* The operation returns self, leaving everything as it was.
ReturnUnchanged(name, args) ==
    /\ EngineUnchanged
    /\ last_op' = OpRecord(name, args, <<>>, "returned", None)

\* The operation returns self after assigning frame, having made `calls`.
ReturnAssigned(name, args, calls, frame) ==
    /\ Assign(frame)
    /\ last_op' = OpRecord(name, args, calls, "returned", None)

\* The operation returns self after _ensure_data_loaded; `same` tells that
\* it assigned nothing after that, `frame` is what self._results then holds.
ReturnEnsured(name, args, same, frame) ==
    IF same /\ _initial_data_loaded
        THEN ReturnUnchanged(name, args)
        ELSE ReturnAssigned(name, args, EnsureCalls, frame)

\* Mutant: the failed load leaves the engine Loaded, with an empty row set.
LoadRaises_leaves_loaded(name, args, plan) ==
    \E k \in 1..Len(plan), failure \in Failures :
        LET raised == DataManagerRaises(failure)
        IN  /\ Assign(EmptyFrame)
            /\ last_op' =
                  [OpRecord(name, args, SubSeq(plan, 1, k), "raised",
                            raised.error)
                   EXCEPT !.failure = failure, !.cause = raised.cause]

\* One of the planned data manager calls fails: the operation raises what
\* the data manager raises, before any assignment to self.
LoadRaises(name, args, plan) ==
    \E k \in 1..Len(plan), failure \in Failures :
        LET raised == DataManagerRaises(failure)
        IN  /\ EngineUnchanged
            /\ last_op' =
                  [OpRecord(name, args, SubSeq(plan, 1, k), "raised",
                            raised.error)
                   EXCEPT !.failure = failure, !.cause = raised.cause]

\* Indexing a column the frame does not have raises KeyError.
RaisesKeyError(name, args) ==
    /\ EngineUnchanged
    /\ last_op' = OpRecord(name, args, <<>>, "raised", "KeyError")

\* Mutant: chain() keeps the loaded flag and the row set.
Chain_keeps_state ==
    /\ EngineUnchanged
    /\ last_export' = NoExport
    /\ last_op' = OpRecord("chain", <<>>, <<>>, "returned", None)
    /\ QeFrame

\* Mutant: chain() clears the flag and keeps the row set.
Chain_keeps_rows ==
    /\ _initial_data_loaded' = FALSE
    /\ UNCHANGED <<_results, shared, caller_df, other_engine>>
    /\ last_export' = NoExport
    /\ last_op' = OpRecord("chain", <<>>, <<>>, "returned", None)
    /\ QeFrame

\* chain(): forget the row set.
Chain ==
    /\ _initial_data_loaded' = FALSE
    /\ _results' = NoFrame
    /\ shared' = FALSE
    /\ UNCHANGED <<caller_df, other_engine>>
    /\ last_export' = NoExport
    /\ last_op' = OpRecord("chain", <<>>, <<>>, "returned", None)
    /\ QeFrame

\* ---- search_entries ----------------------------------------------------
DEFAULT_SEARCH_FIELD == "entry_content_markdown"
\* search_fields=None
NoFields == <<None>>

RecognizedFields ==
    {"title", "content_markdown", "link", "description", "entry_title",
     "entry_content_markdown", "entry_link", "entry_description"}
field_mapping(field) ==
    IF field \in {"title", "entry_title"} THEN "entry_title"
    ELSE IF field \in {"content_markdown", "entry_content_markdown"}
        THEN "entry_content_markdown"
    ELSE IF field \in {"link", "entry_link"} THEN "entry_link"
    ELSE "entry_description"

\* The text columns of a hierarchical frame that a search can reach.
TextColumns(df) ==
    IF df.has_columns
        THEN {"entry_title", "entry_content_markdown", "entry_link"}
        ELSE {}
Cell(row, column) ==
    IF column = "entry_title" THEN row.entry_title
    ELSE IF column = "entry_link" THEN row.entry_link
    ELSE row.entry_content_markdown

\* field_mask for one row.
FieldMask(df, row, field, keyword, case) ==
    /\ field \in TextColumns(df)
    /\ StrContains(FillNa(Cell(row, field)), keyword, case)

\* Mutant: with match_all a keyword must match in every field that is a
\* column, so a search over no column keeps every row.
SearchMask_every_column(df, row, keywords, actual_fields, case, match_all) ==
    IF match_all
        THEN \A k \in 1..Len(keywords) : \A f \in 1..Len(actual_fields) :
                 actual_fields[f] \in TextColumns(df) =>
                     FieldMask(df, row, actual_fields[f], keywords[k], case)
        ELSE \E k \in 1..Len(keywords) : \E f \in 1..Len(actual_fields) :
                 FieldMask(df, row, actual_fields[f], keywords[k], case)

\* Mutant: match_all is ignored; any keyword in any field keeps the row.
SearchMask_any_keyword(df, row, keywords, actual_fields, case, match_all) ==
    \E k \in 1..Len(keywords) : \E f \in 1..Len(actual_fields) :
        FieldMask(df, row, actual_fields[f], keywords[k], case)

\* combined_mask for one row.
SearchMask(df, row, keywords, actual_fields, case, match_all) ==
    IF match_all
        THEN \A k \in 1..Len(keywords) : \E f \in 1..Len(actual_fields) :
                 FieldMask(df, row, actual_fields[f], keywords[k], case)
        ELSE \E k \in 1..Len(keywords) : \E f \in 1..Len(actual_fields) :
                 FieldMask(df, row, actual_fields[f], keywords[k], case)

KeywordArgs ==
    { <<>>, << <<>> >>, << <<"a">> >>, << <<"B">> >>, << <<"a">>, <<"b">> >> }
SearchFieldArgs ==
    { NoFields, <<"title">>, <<"bogus">>, <<"bogus", "title">>,
      <<"description">> }

\* Mutant: an unrecognized field is not skipped; it is searched as a column
\* that no frame has.
ActualFields_keeps_unknown(search_fields) ==
    LET fields == IF search_fields = NoFields
                      THEN <<DEFAULT_SEARCH_FIELD>> ELSE search_fields
    IN  [i \in 1..Len(fields) |-> field_mapping(fields[i])]

\* The columns searched: the requested fields that are recognized, mapped
\* to their column names (search_fields=None means the default field).
ActualFields(search_fields) ==
    LET fields == IF search_fields = NoFields
                      THEN <<DEFAULT_SEARCH_FIELD>> ELSE search_fields
        known == SelectSeq(fields, LAMBDA f : f \in RecognizedFields)
    IN  [i \in 1..Len(known) |-> field_mapping(known[i])]

\* search_entries returns before filtering: no keyword, or no valid field.
SearchReturnsEarly(keywords, search_fields) ==
    keywords = <<>> \/ ActualFields(search_fields) = <<>>

\* Mutant: the search runs over the full hierarchy, not over the row set
\* the engine holds.
SearchedFrame_full(base, keywords, search_fields, case_sensitive, match_all) ==
    LET full == get_hierarchical_view(published, None, None)
        combined_mask ==
            [i \in 1..Len(full.rows) |->
                SearchMask(full, full.rows[i], keywords,
                           ActualFields(search_fields), case_sensitive,
                           match_all)]
    IN  IF SearchReturnsEarly(keywords, search_fields) THEN base
        ELSE Keep(full, combined_mask)

\* combined_mask is the Series it was created as: with match_all=False no
\* searched field is a column of df, so no field_mask was or-ed into it.
\* (With match_all=True it is and-ed with a keyword_mask for each keyword.)
MaskUntouched(df, actual_fields, match_all) ==
    /\ ~match_all
    /\ \A f \in 1..Len(actual_fields) : actual_fields[f] \notin TextColumns(df)

\* The frame self._results holds when search_entries returns, base being
\* the frame it held after _ensure_data_loaded.  pd.Series([False] * 0) is
\* not of boolean dtype: an untouched mask over a frame of no row is taken
\* by df[...] as an empty list of column labels, and selects a frame with
\* no columns.
SearchedFrame(base, keywords, search_fields, case_sensitive, match_all) ==
    LET actual_fields == ActualFields(search_fields)
        combined_mask ==
            [i \in 1..Len(base.rows) |->
                SearchMask(base, base.rows[i], keywords, actual_fields,
                           case_sensitive, match_all)]
    IN  IF SearchReturnsEarly(keywords, search_fields) THEN base
        ELSE IF Len(base.rows) = 0
                /\ MaskUntouched(base, actual_fields, match_all)
            THEN EmptyFrame
        ELSE Keep(base, combined_mask)

SearchEntries ==
    \E keywords \in KeywordArgs, search_fields \in SearchFieldArgs,
       case_sensitive \in BOOLEAN, match_all \in BOOLEAN :
        LET name == "search_entries"
            args == <<>>
        IN  /\ \/ ReturnEnsured(name, args,
                                SearchReturnsEarly(keywords, search_fields),
                                SearchedFrame(EnsuredFrame, keywords,
                                              search_fields, case_sensitive,
                                              match_all))
               \/ LoadRaises(name, args, EnsureCalls)
            /\ last_export' = NoExport
            /\ QeFrame

\* ---- filter_by_topic, filter_by_feed ------------------------------------
\* An absent name (None or ""): `not topic_name`.
NoName == <<>>
TopicIdArgs == {None, "t1", "t2", "tx"}
TopicNameArgs == {NoName, <<"a", "b">>, <<"C">>, <<"z">>}
FeedIdArgs == {None, "f1", "f3", "f4"}
FeedNameArgs == {NoName, <<"x">>, <<"C">>, <<"d">>, <<"z">>}

\* The optimized load of an Unloaded engine by name: the entities whose name
\* contains it, the calls made, and the frame assigned.
\* kind is "topic" or "feed".
\* Mutant: the name is matched with case.
NameMatches_with_case(kind, name) ==
    SelectSeq(IF kind = "topic" THEN Topics ELSE Feeds,
              LAMBDA x : StrContains(FillNa(x.name), name, TRUE))

NameMatches(kind, name) ==
    SelectSeq(IF kind = "topic" THEN Topics ELSE Feeds,
              LAMBDA x : StrContains(FillNa(x.name), name, FALSE))
EntityCall(kind, id) ==
    IF kind = "topic" THEN HvCall(None, id) ELSE HvCall(id, None)
EntityView(kind, id) ==
    IF kind = "topic" THEN get_hierarchical_view(published, None, id)
    ELSE get_hierarchical_view(published, id, None)
NameLoadCalls(kind, name) ==
    LET matching == NameMatches(kind, name)
    IN  <<DfCall(IF kind = "topic" THEN "get_topics_df" ELSE "get_feeds_df")>>
        \o [i \in 1..Len(matching) |-> EntityCall(kind, matching[i].id)]
\* Mutant: of several matches only the first is fetched into the row set.
NameLoadFrame_first_match(kind, name) ==
    LET matching == NameMatches(kind, name)
    IN  IF Len(matching) = 0 THEN EmptyFrame
        ELSE EntityView(kind, matching[1].id)

NameLoadFrame(kind, name) ==
    LET matching == NameMatches(kind, name)
    IN  IF Len(matching) = 0 THEN EmptyFrame
        ELSE IF Len(matching) = 1 THEN EntityView(kind, matching[1].id)
        ELSE Concat([i \in 1..Len(matching) |->
                        EntityView(kind, matching[i].id)])

\* Whether a row of the hierarchy passes the filter by id, or by name when
\* no id is given.
EntityMask(kind, row, id, name) ==
    IF id # None
        THEN (IF kind = "topic" THEN row.topic_id ELSE row.feed_id) = id
        ELSE StrContains(FillNa(IF kind = "topic" THEN row.topic_name
                                ELSE row.feed_name), name, FALSE)

\* Mutant: the mask is computed on the rows of the full hierarchy and
\* applied by position to the rows held.
EntityFiltered_by_position(kind, df, id, name) ==
    LET full == get_hierarchical_view(published, None, None)
    IN  IF id = None /\ name = NoName THEN df
        ELSE Keep(df, [i \in 1..Len(df.rows) |->
                 EntityMask(kind, full.rows[i], id, name)])

\* The frame self._results holds when filter_by_topic or filter_by_feed
\* returns on a Loaded engine whose frame df has the hierarchy's columns.
EntityFiltered(kind, df, id, name) ==
    IF id = None /\ name = NoName THEN df
    ELSE Keep(df, [i \in 1..Len(df.rows) |->
             EntityMask(kind, df.rows[i], id, name)])

\* What the call leaves of the frame df that a Loaded engine holds, and
\* whether it raises: the standard path of filter_by_topic and
\* filter_by_feed.
StandardPath(kind, df, id, name) ==
    IF id # None /\ ~df.has_columns
        THEN [outcome |-> "raised", error |-> "KeyError", frame |-> df]
    ELSE IF df.has_columns
        THEN [outcome |-> "returned", error |-> None,
              frame |-> EntityFiltered(kind, df, id, name)]
    ELSE [outcome |-> "returned", error |-> None, frame |-> df]

\* The frame the call loads into an Unloaded engine: the optimized path.
OptimizedPath(kind, id, name) ==
    IF id # None THEN EntityView(kind, id) ELSE NameLoadFrame(kind, name)

\* Mutant: a filter called with neither id nor name loads the full view.
FilterByEntity_loads_without_args(kind, opname, id, name, args) ==
    IF ~_initial_data_loaded
        THEN \/ ReturnAssigned(opname, args, <<HvCall(None, None)>>,
                               get_hierarchical_view(published, None, None))
             \/ LoadRaises(opname, args, <<HvCall(None, None)>>)
    ELSE ReturnUnchanged(opname, args)

\* The body shared by filter_by_topic and filter_by_feed.
FilterByEntity(kind, opname, id, name, args) ==
    IF id = None /\ name = NoName
        THEN ReturnUnchanged(opname, args)
    ELSE IF ~_initial_data_loaded
        THEN LET calls == IF id # None THEN <<EntityCall(kind, id)>>
                          ELSE NameLoadCalls(kind, name)
             IN  \/ ReturnAssigned(opname, args, calls,
                                   OptimizedPath(kind, id, name))
                 \/ LoadRaises(opname, args, calls)
    ELSE LET df == Held(_results)
             done == StandardPath(kind, df, id, name)
         IN  IF done.outcome = "raised"
                 THEN RaisesKeyError(opname, args)
             ELSE IF df.has_columns
                 THEN ReturnAssigned(opname, args, <<>>, done.frame)
             ELSE ReturnUnchanged(opname, args)

FilterByTopic ==
    \E topic_id \in TopicIdArgs, topic_name \in TopicNameArgs :
        /\ FilterByEntity("topic", "filter_by_topic", topic_id, topic_name,
                          [id |-> topic_id, name |-> topic_name])
        /\ last_export' = NoExport
        /\ QeFrame

FilterByFeed ==
    \E feed_id \in FeedIdArgs, feed_name \in FeedNameArgs :
        /\ FilterByEntity("feed", "filter_by_feed", feed_id, feed_name,
                          [id |-> feed_id, name |-> feed_name])
        /\ last_export' = NoExport
        /\ QeFrame

\* ---- filter_by_date, filter_by_active ------------------------------------
\* An absent bound (None); the bounds are days.
NoDate == 0
DateArgs == {NoDate, 1, 2}

\* filter_by_date returns before filtering: no bound, or no date column.
DateReturnsEarly(base, start_date, end_date) ==
    (start_date = NoDate /\ end_date = NoDate) \/ ~base.has_columns

\* Mutant: the bounds are exclusive.
DateFiltered_exclusive(base, start_date, end_date) ==
    LET from_start ==
            IF start_date = NoDate THEN base
            ELSE Keep(base, [i \in 1..Len(base.rows) |->
                     /\ base.rows[i].entry_published_at # NaT
                     /\ base.rows[i].entry_published_at > start_date])
        to_end ==
            IF end_date = NoDate THEN from_start
            ELSE Keep(from_start, [i \in 1..Len(from_start.rows) |->
                     /\ from_start.rows[i].entry_published_at # NaT
                     /\ from_start.rows[i].entry_published_at < end_date])
    IN  IF DateReturnsEarly(base, start_date, end_date) THEN base ELSE to_end

\* The frame self._results holds when filter_by_date returns, base being
\* the frame it held after _ensure_data_loaded. A comparison with NaT is
\* False, so a row without a date passes no bound.
DateFiltered(base, start_date, end_date) ==
    LET from_start ==
            IF start_date = NoDate THEN base
            ELSE Keep(base, [i \in 1..Len(base.rows) |->
                     /\ base.rows[i].entry_published_at # NaT
                     /\ base.rows[i].entry_published_at >= start_date])
        to_end ==
            IF end_date = NoDate THEN from_start
            ELSE Keep(from_start, [i \in 1..Len(from_start.rows) |->
                     /\ from_start.rows[i].entry_published_at # NaT
                     /\ from_start.rows[i].entry_published_at <= end_date])
    IN  IF DateReturnsEarly(base, start_date, end_date) THEN base ELSE to_end

FilterByDate ==
    \E start_date \in DateArgs, end_date \in DateArgs :
        LET name == "filter_by_date"
            args == <<>>
        IN  /\ \/ ReturnEnsured(name, args,
                                DateReturnsEarly(EnsuredFrame, start_date,
                                                 end_date),
                                DateFiltered(EnsuredFrame, start_date,
                                             end_date))
               \/ LoadRaises(name, args, EnsureCalls)
            /\ last_export' = NoExport
            /\ QeFrame

\* Mutant: the argument is ignored and the active rows are kept.
ActiveFiltered_only_active(base, is_active) ==
    IF ~base.has_columns THEN base
    ELSE Keep(base, [i \in 1..Len(base.rows) |->
             base.rows[i].entry_is_active = TRUE])

\* The frame self._results holds when filter_by_active returns, base being
\* the frame it held after _ensure_data_loaded.
ActiveFiltered(base, is_active) ==
    IF ~base.has_columns THEN base
    ELSE Keep(base, [i \in 1..Len(base.rows) |->
             base.rows[i].entry_is_active = is_active])

FilterByActive ==
    \E is_active \in BOOLEAN :
        LET name == "filter_by_active"
            args == <<>>
            base == EnsuredFrame
        IN  /\ \/ ReturnEnsured(name, args, ~base.has_columns,
                                ActiveFiltered(base, is_active))
               \/ LoadRaises(name, args, EnsureCalls)
            /\ last_export' = NoExport
            /\ QeFrame

\* ---- exports --------------------------------------------------------------
\* to_dataframe: _ensure_data_loaded, then return self._results.copy(); the
\* caller keeps the returned frame in its variable.
ToDataframe ==
    LET name == "to_dataframe"
        base == EnsuredFrame
        copy == DataFrameCopy(base)
    IN  /\ \/ /\ _results' = Holding(base)
              /\ _initial_data_loaded' = TRUE
              /\ caller_df' = Holding(copy.frame)
              /\ shared' = copy.same_object
              /\ UNCHANGED other_engine
              /\ last_export' = [valid |-> TRUE, rows |-> copy.frame.rows]
              /\ last_op' = OpRecord(name, <<>>, EnsureCalls, "returned",
                                     None)
           \/ /\ LoadRaises(name, <<>>, EnsureCalls)
              /\ UNCHANGED last_export
        /\ QeFrame

\* to_dict, to_json, to_csv: _ensure_data_loaded, then hand out the rows as
\* a list of records, as JSON text, or in the file written; none is a
\* DataFrame the caller could change.
Export(name) ==
    /\ \/ /\ IF _initial_data_loaded
                THEN EngineUnchanged ELSE Assign(EnsuredFrame)
          /\ last_op' = OpRecord(name, <<>>, EnsureCalls, "returned", None)
       \/ LoadRaises(name, <<>>, EnsureCalls)
    /\ UNCHANGED last_export
    /\ QeFrame

ToDict == Export("to_dict")
ToJson == Export("to_json")
ToCsv == Export("to_csv")

\* ---- the environment ------------------------------------------------------
\* The caller changes, in place, the frame to_dataframe gave it: it drops
\* every row. When that frame is the engine's own object, the engine's row
\* set is changed with it.
CallerMutatesFrame ==
    /\ caller_df # NoFrame
    /\ Len(Held(caller_df).rows) > 0
    /\ caller_df' = Holding([Held(caller_df) EXCEPT !.rows = <<>>])
    /\ _results' = IF shared THEN caller_df' ELSE _results
    /\ UNCHANGED <<published, _initial_data_loaded, shared, other_engine,
                   last_op, last_export, rq_vars, pg_vars, fn_vars>>

\* The entries the backend starts and stops serving while the engine lives.
ComingAndGoing == {"e2"}

\* The backend starts or stops serving an entry.
BackendChanges ==
    /\ \E e \in ComingAndGoing :
          published' = IF e \in published THEN published \ {e}
                       ELSE published \cup {e}
    /\ UNCHANGED <<_results, _initial_data_loaded, caller_df, shared,
                   other_engine, last_op, last_export, rq_vars, pg_vars,
                   fn_vars>>

Next_engine ==
    \/ Chain
    \/ SearchEntries
    \/ FilterByTopic
    \/ FilterByFeed
    \/ FilterByDate
    \/ FilterByActive
    \/ ToDataframe
    \/ ToDict
    \/ ToJson
    \/ ToCsv
    \/ CallerMutatesFrame
    \/ BackendChanges

(***************************************************************************)
(* Initial states and specifications.                                      *)
(***************************************************************************)
\* CarverFeedsAPIClient.__init__, before any call.
Init_client ==
    /\ max_retries \in 0..MaxRetriesBound
    /\ initial_retry_delay \in InitialDelays
    /\ rq_pc = "idle"
    /\ retry_count = 0
    /\ attempts = 0
    /\ statuses = <<>>
    /\ last_text = None
    /\ delays = <<>>
    /\ rq_result = NoResult

Idle_client ==
    /\ max_retries = DEFAULT_MAX_RETRIES
    /\ initial_retry_delay = 4
    /\ rq_pc = "idle"
    /\ retry_count = 0
    /\ attempts = 0
    /\ statuses = <<>>
    /\ last_text = None
    /\ delays = <<>>
    /\ rq_result = NoResult

Idle_paginate ==
    /\ pg_pc = "idle"
    /\ pg_limit = 1
    /\ pg_fetch_all = FALSE
    /\ pg_total = 0
    /\ offset = 0
    /\ all_results = <<>>
    /\ page_requests = <<>>
    /\ pg_result = NoResult

Idle_engine ==
    /\ published = {}
    /\ _results = NoFrame
    /\ _initial_data_loaded = FALSE
    /\ caller_df = NoFrame
    /\ shared = FALSE
    /\ other_engine = NewEngine
    /\ last_op = NoOp
    /\ last_export = NoExport

Idle_fn ==
    /\ fn_pc = "idle"
    /\ fn_args = <<>>
    /\ fn_local = <<>>
    /\ fn_calls = <<>>
    /\ fn_result = NoResult

InitRequest == Init_client /\ Idle_paginate /\ Idle_engine /\ Idle_fn
SpecRequest == InitRequest /\ [][Next_make_request]_vars

InitPaginate == Idle_client /\ Idle_paginate /\ Idle_engine /\ Idle_fn
SpecPaginate == InitPaginate /\ [][Next_paginate]_vars

\* EntryQueryEngine.__init__ over a backend serving every entry.
Init_engine ==
    /\ published = EntryIds
    /\ _results = NoFrame
    /\ _initial_data_loaded = FALSE
    /\ caller_df = NoFrame
    /\ shared = FALSE
    /\ other_engine = NewEngine
    /\ last_op = NoOp
    /\ last_export = NoExport

InitEngine == Idle_client /\ Idle_paginate /\ Init_engine /\ Idle_fn
SpecEngine == InitEngine /\ [][Next_engine]_vars

(***************************************************************************)
(* FeedsDataManager._handle_s3_fetch and fetch_contents_from_s3: one call, *)
(* with the client factory and the storage client as collaborators.        *)
(***************************************************************************)
MaxRows == 2           \* the table handed in holds 0..MaxRows rows

\* The storage paths a row may carry (None: a null path), the body it may
\* have arrived with from the API (None: no body), and the content the
\* storage holds under a path.
S3Paths == {"s3://b/1.md", "s3://b/2.md"}
ApiBodies == {None, "body from the API"}
Content(path) == IF path = "s3://b/1.md" THEN "content 1" ELSE "content 2"

\* The tables handed in: rows of id, s3_content_md_path and
\* content_markdown. Without the path column no row carries a path.
HydrationRows(has_path_column) ==
    UNION {[1..n -> [s3_content_md_path :
                         IF has_path_column THEN S3Paths \cup {None}
                         ELSE {None},
                     content_markdown : ApiBodies]] : n \in 0..MaxRows}

\* Mutant: the body a record arrived with stays.
WithoutContent_keeps_body(rows) == rows

\* df["content_markdown"] = None
WithoutContent(rows) ==
    [i \in 1..Len(rows) |-> [rows[i] EXCEPT !.content_markdown = None]]

\* Mutant: every non-null path is listed, as often as it occurs.
UniquePaths_with_duplicates(rows) ==
    LET paths == [i \in 1..Len(rows) |-> rows[i].s3_content_md_path]
    IN  SelectSeq(paths, LAMBDA p : p # None)

\* df["s3_content_md_path"].dropna().unique().tolist(): the non-null paths
\* in the order they first occur.
UniquePaths(rows) ==
    LET paths == [i \in 1..Len(rows) |-> rows[i].s3_content_md_path]
        first == {i \in 1..Len(rows) :
                     /\ paths[i] # None
                     /\ \A j \in 1..(i - 1) : paths[j] # paths[i]}
        Pick[i \in 0..Len(rows)] ==
            IF i = 0 THEN <<>>
            ELSE IF i \in first THEN Append(Pick[i - 1], paths[i])
            ELSE Pick[i - 1]
    IN  Pick[Len(rows)]

\* What fetch_content_batch may return for the paths asked: each path
\* mapped to its content or, when the fetch failed, to None.
ContentMaps(paths) ==
    [{paths[i] : i \in 1..Len(paths)} ->
        {Content(p) : p \in S3Paths} \cup {None}]

\* df["s3_content_md_path"].map(content_map): a path that is null, or that
\* the mapping does not hold, gives a null body.
MapContent(rows, content_map) ==
    [i \in 1..Len(rows) |->
        [rows[i] EXCEPT !.content_markdown =
            IF rows[i].s3_content_md_path \in DOMAIN content_map
                THEN content_map[rows[i].s3_content_md_path]
                ELSE None]]

\* The call returns the table with these rows.
HydrationReturns(rows) ==
    /\ fn_pc' = "returned"
    /\ fn_result' = Returned(rows)
    /\ UNCHANGED <<fn_args, rq_vars, pg_vars, qe_vars>>

\* if not fetch_content: the body column is set to None.
HydrationNotRequested ==
    /\ fn_pc = "_handle_s3_fetch"
    /\ ~fn_args.fetch_content
    /\ HydrationReturns(WithoutContent(fn_args.rows))
    /\ UNCHANGED <<fn_local, fn_calls>>

\* A client was passed in: go on to fetch_contents_from_s3 with it.
UseGivenClient ==
    /\ fn_pc = "_handle_s3_fetch"
    /\ fn_args.fetch_content
    /\ fn_args.s3_client
    /\ fn_pc' = "fetch_contents_from_s3"
    /\ fn_local' = [client |-> TRUE, content_map |-> <<>>]
    /\ UNCHANGED <<fn_args, fn_calls, fn_result, rq_vars, pg_vars, qe_vars>>

\* No client was passed in and get_s3_client() returns none.
FactoryReturnsNone ==
    /\ fn_pc = "_handle_s3_fetch"
    /\ fn_args.fetch_content
    /\ ~fn_args.s3_client
    /\ fn_calls' = Append(fn_calls, [fn |-> "get_s3_client", paths |-> <<>>])
    /\ HydrationReturns(WithoutContent(fn_args.rows))
    /\ UNCHANGED fn_local

\* No client was passed in and get_s3_client() returns one.
FactoryReturnsClient ==
    /\ fn_pc = "_handle_s3_fetch"
    /\ fn_args.fetch_content
    /\ ~fn_args.s3_client
    /\ fn_calls' = Append(fn_calls, [fn |-> "get_s3_client", paths |-> <<>>])
    /\ fn_pc' = "fetch_contents_from_s3"
    /\ fn_local' = [client |-> TRUE, content_map |-> <<>>]
    /\ UNCHANGED <<fn_args, fn_result, rq_vars, pg_vars, qe_vars>>

\* fetch_contents_from_s3 on a table without the path column.
NoPathColumn ==
    /\ fn_pc = "fetch_contents_from_s3"
    /\ ~fn_args.has_path_column
    /\ HydrationReturns(WithoutContent(fn_args.rows))
    /\ UNCHANGED <<fn_local, fn_calls>>

\* fetch_contents_from_s3 on a table whose paths are all null.
NoPathsToFetch ==
    /\ fn_pc = "fetch_contents_from_s3"
    /\ fn_args.has_path_column
    /\ UniquePaths(fn_args.rows) = <<>>
    /\ HydrationReturns(WithoutContent(fn_args.rows))
    /\ UNCHANGED <<fn_local, fn_calls>>

\* fetch_contents_from_s3: one batch fetch, then the mapping onto the rows.
BatchFetch ==
    /\ fn_pc = "fetch_contents_from_s3"
    /\ fn_args.has_path_column
    /\ UniquePaths(fn_args.rows) # <<>>
    /\ \E content_map \in ContentMaps(UniquePaths(fn_args.rows)) :
          /\ fn_local' = [fn_local EXCEPT !.content_map = content_map]
          /\ HydrationReturns(MapContent(fn_args.rows, content_map))
    /\ fn_calls' = Append(fn_calls, [fn |-> "fetch_content_batch",
                                     paths |-> UniquePaths(fn_args.rows)])

Next_hydrate ==
    \/ HydrationNotRequested
    \/ UseGivenClient
    \/ FactoryReturnsNone
    \/ FactoryReturnsClient
    \/ NoPathColumn
    \/ NoPathsToFetch
    \/ BatchFetch

\* A call of _handle_s3_fetch(df, s3_client, fetch_content).
Init_hydrate ==
    /\ fn_pc = "_handle_s3_fetch"
    /\ \E has_path_column \in BOOLEAN :
          fn_args \in [rows : HydrationRows(has_path_column),
                       has_path_column : {has_path_column},
                       s3_client : BOOLEAN,
                       fetch_content : BOOLEAN]
    /\ fn_local = [client |-> FALSE, content_map |-> <<>>]
    /\ fn_calls = <<>>
    /\ fn_result = NoResult

InitHydrate == Idle_client /\ Idle_paginate /\ Idle_engine /\ Init_hydrate
SpecHydrate == InitHydrate /\ [][Next_hydrate]_vars

(***************************************************************************)
(* FeedsDataManager._json_to_dataframe (the Normalizer): one call.         *)
(***************************************************************************)
MaxRecords == 2        \* the list handed in holds 0..MaxRecords records

\* The fields a record may carry and the columns a caller may expect:
\* base_domain is never served, extra_field is never expected.
RecordFields == {"id", "name", "extra_field"}
ExpectedFields == {"id", "name", "base_domain"}
\* expected_columns=None
NoColumns == <<None>>
\* The absent marker (None / NaN) in a cell.
Absent == None

\* The sequences of up to n distinct members of S.
DistinctSeqs(S, n) ==
    {s \in UNION {[1..k -> S] : k \in 0..n} :
        \A i, j \in 1..Len(s) : i # j => s[i] # s[j]}

\* A record is the sequence of its keys, in the order the dict holds them;
\* under key k it holds the value of that name.
Records == DistinctSeqs(RecordFields, Cardinality(RecordFields))
Keys(record) == {record[i] : i \in 1..Len(record)}
ValueOf(record, key) == IF key \in Keys(record) THEN key ELSE Absent

\* pd.DataFrame(data).columns: the keys of the records in discovery order.
RECURSIVE DiscoveredColumns(_)
DiscoveredColumns(data) ==
    IF data = <<>> THEN <<>>
    ELSE LET before == DiscoveredColumns(SubSeq(data, 1, Len(data) - 1))
             seen == {before[i] : i \in 1..Len(before)}
         IN  before \o SelectSeq(data[Len(data)], LAMBDA k : k \notin seen)

\* A table: its columns in order, and one row per record.
Table(columns, data) ==
    [columns |-> columns,
     rows |-> [i \in 1..Len(data) |->
                  [c \in {columns[k] : k \in 1..Len(columns)} |->
                      ValueOf(data[i], c)]]]

\* Mutant: an empty list gives a table without columns.
EmptyTable_without_columns(expected_columns) == Table(<<>>, <<>>)

\* len(data) == 0: pd.DataFrame(columns=expected_columns), or pd.DataFrame()
\* when no columns are expected.
EmptyTable(expected_columns) ==
    IF expected_columns = NoColumns \/ expected_columns = <<>>
        THEN Table(<<>>, <<>>)
        ELSE Table(expected_columns, <<>>)

\* Mutant: only the expected columns are kept.
OrderedColumns_drops_extras(expected_columns, discovered) ==
    expected_columns

\* ordered_cols + extra_cols, after the missing columns were added: the
\* expected columns in the given order, then the others as discovered.
OrderedColumns(expected_columns, discovered) ==
    LET with_missing ==
            discovered \o SelectSeq(expected_columns, LAMBDA c :
                \A k \in 1..Len(discovered) : discovered[k] # c)
        ordered_cols ==
            SelectSeq(expected_columns, LAMBDA c :
                \E k \in 1..Len(with_missing) : with_missing[k] = c)
        extra_cols ==
            SelectSeq(with_missing, LAMBDA c :
                \A k \in 1..Len(expected_columns) : expected_columns[k] # c)
    IN  ordered_cols \o extra_cols

NormalizerReturns(table) ==
    /\ fn_pc' = "returned"
    /\ fn_result' = Returned(table)
    /\ UNCHANGED <<fn_args, fn_local, fn_calls, rq_vars, pg_vars, qe_vars>>

\* _json_to_dataframe on an empty list.
NormalizeEmpty ==
    /\ fn_pc = "_json_to_dataframe"
    /\ fn_args.data = <<>>
    /\ NormalizerReturns(EmptyTable(fn_args.expected_columns))

\* _json_to_dataframe on a non-empty list of records.
NormalizeRecords ==
    /\ fn_pc = "_json_to_dataframe"
    /\ fn_args.data # <<>>
    /\ NormalizerReturns(
           IF fn_args.expected_columns = NoColumns
                  \/ fn_args.expected_columns = <<>>
               THEN Table(DiscoveredColumns(fn_args.data), fn_args.data)
               ELSE Table(OrderedColumns(fn_args.expected_columns,
                                         DiscoveredColumns(fn_args.data)),
                          fn_args.data))

Next_normalize ==
    \/ NormalizeEmpty
    \/ NormalizeRecords

\* A call of _json_to_dataframe(data, expected_columns).
Init_normalize ==
    /\ fn_pc = "_json_to_dataframe"
    /\ fn_args \in [data : UNION {[1..n -> Records] : n \in 0..MaxRecords},
                    expected_columns :
                        DistinctSeqs(ExpectedFields, 2) \cup {NoColumns}]
    /\ fn_local = <<>>
    /\ fn_calls = <<>>
    /\ fn_result = NoResult

InitNormalize == Idle_client /\ Idle_paginate /\ Idle_engine /\ Init_normalize
SpecNormalize == InitNormalize /\ [][Next_normalize]_vars

(***************************************************************************)
(* CarverFeedsAPIClient.get_annotations: one call. The method is described *)
(* by the specification and exercised by tests/test_carver_api.py.         *)
(***************************************************************************)
\* The three filters, and the query parameter each is sent as.
FilterNames == {"feed_entry_ids", "topic_ids", "user_ids"}
ParamName(filter) ==
    IF filter = "feed_entry_ids" THEN "feed_entry_ids_in"
    ELSE IF filter = "topic_ids" THEN "topic_ids_in"
    ELSE "user_ids_in"

\* The message raised for a filter supplied as an empty list.
EmptyListText(filter) ==
    IF filter = "feed_entry_ids" THEN "feed_entry_ids cannot be an empty list"
    ELSE IF filter = "topic_ids" THEN "topic_ids cannot be an empty list"
    ELSE "user_ids cannot be an empty list"

\* A filter that is not supplied (None), and the id lists one may hold.
NotGiven == <<None>>
IdLists == {<<>>, <<"a">>, <<"a", "b">>, <<"b", "a">>}

\* Mutant: the ids are joined without a separator.
CommaJoin_without_commas(ids) == ids

\* ",".join(ids), as the sequence of its pieces.
RECURSIVE CommaJoin(_)
CommaJoin(ids) ==
    IF Len(ids) <= 1 THEN ids
    ELSE <<Head(ids), ",">> \o CommaJoin(Tail(ids))

\* The filters the call supplies.
SuppliedFilters(args) == {f \in FilterNames : args[f] # NotGiven}

AnnotationsFrame == UNCHANGED <<fn_args, fn_local, rq_vars, pg_vars, qe_vars>>

\* The call raises a validation error before any request.
RaisesValidationError(text) ==
    /\ fn_pc' = "raised"
    /\ fn_result' = Raised("ValidationError", None, text, None)
    /\ UNCHANGED fn_calls
    /\ AnnotationsFrame

\* No filter is supplied.
NoFilterSupplied ==
    /\ fn_pc = "get_annotations"
    /\ SuppliedFilters(fn_args) = {}
    /\ RaisesValidationError("At least one filter must be provided")

\* More than one filter is supplied.
SeveralFiltersSupplied ==
    /\ fn_pc = "get_annotations"
    /\ Cardinality(SuppliedFilters(fn_args)) > 1
    /\ RaisesValidationError("Only one filter can be used per request")

\* The one filter supplied is an empty list.
EmptyFilterSupplied ==
    /\ fn_pc = "get_annotations"
    /\ \E f \in FilterNames :
          /\ SuppliedFilters(fn_args) = {f}
          /\ fn_args[f] = <<>>
          /\ RaisesValidationError(EmptyListText(f))

\* One non-empty filter: GET /api/v1/core/annotations with its parameter.
RequestAnnotations ==
    /\ fn_pc = "get_annotations"
    /\ \E f \in FilterNames :
          /\ SuppliedFilters(fn_args) = {f}
          /\ fn_args[f] # <<>>
          /\ fn_calls' = Append(fn_calls,
                 [method |-> "GET", path |-> "/api/v1/core/annotations",
                  params |-> [p \in {ParamName(f)} |-> CommaJoin(fn_args[f])]])
    /\ fn_pc' = "requesting"
    /\ UNCHANGED fn_result
    /\ AnnotationsFrame

\* The request returns a list, which the call returns.
AnnotationsReturned ==
    /\ fn_pc = "requesting"
    /\ fn_pc' = "returned"
    /\ fn_result' = Returned("annotations")
    /\ UNCHANGED fn_calls
    /\ AnnotationsFrame

\* The request raises, or returns something that is not a list.
AnnotationsFailed ==
    /\ fn_pc = "requesting"
    /\ fn_pc' = "raised"
    /\ \E error \in ApiErrors :
          fn_result' = Raised(error, None, None, None)
    /\ UNCHANGED fn_calls
    /\ AnnotationsFrame

Next_annotations ==
    \/ NoFilterSupplied
    \/ SeveralFiltersSupplied
    \/ EmptyFilterSupplied
    \/ RequestAnnotations
    \/ AnnotationsReturned
    \/ AnnotationsFailed

\* A call of get_annotations(feed_entry_ids, topic_ids, user_ids).
Init_annotations ==
    /\ fn_pc = "get_annotations"
    /\ fn_args \in [FilterNames -> IdLists \cup {NotGiven}]
    /\ fn_local = <<>>
    /\ fn_calls = <<>>
    /\ fn_result = NoResult

InitAnnotations ==
    Idle_client /\ Idle_paginate /\ Idle_engine /\ Init_annotations
SpecAnnotations == InitAnnotations /\ [][Next_annotations]_vars

(***************************************************************************)
(* The id-scoped fetchers of CarverFeedsAPIClient: one call of             *)
(* get_feed_entries, get_topic_entries or get_user_topic_subscriptions.    *)
(***************************************************************************)
FetcherNames ==
    {"get_feed_entries", "get_topic_entries", "get_user_topic_subscriptions"}

\* The id passed: None, the empty string, or an id.
FetcherIds == {None, "", "x1", "x2"}

\* `not feed_id`: None and the empty string are falsy.
IdMissing(id) == id \in {None, ""}

\* The message of the ValueError raised for a missing id.
IdRequiredText(fetcher) ==
    IF fetcher = "get_feed_entries" THEN "feed_id is required"
    ELSE IF fetcher = "get_topic_entries" THEN "topic_id is required"
    ELSE "user_id is required"

\* The path requested, as the pieces of the f-string.
FetcherPath(fetcher, id) ==
    IF fetcher = "get_feed_entries"
        THEN <<"/api/v1/feeds/", id, "/entries">>
    ELSE IF fetcher = "get_topic_entries"
        THEN <<"/api/v1/feeds/topics/", id, "/entries">>
    ELSE <<"/api/v1/core/users/", id, "/topics/subscriptions">>

\* The _make_request call: the entries fetchers pass the limit, the
\* subscriptions fetcher passes no parameters.
FetcherRequest(fetcher, id, limit) ==
    [method |-> "GET", path |-> FetcherPath(fetcher, id),
     params |-> IF fetcher = "get_user_topic_subscriptions"
                THEN <<>> ELSE [p \in {"limit"} |-> limit]]

\* What _make_request may hand back: a list, a dict with the key the
\* fetcher reads, a dict without it.
FetcherResponses == {"list", "dict with key", "dict without key"}

\* What the fetcher makes of the response.  The subscriptions fetcher
\* returns the dict itself, and raises for a response that is no dict and
\* for a dict without the 'subscriptions' field, with a message for each.
FetcherOutcome(fetcher, response) ==
    IF fetcher = "get_user_topic_subscriptions"
        THEN IF response = "dict with key"
                 THEN Returned("subscriptions")
             ELSE IF response = "dict without key"
                 THEN Raised("CarverAPIError", None,
                             "Response missing 'subscriptions' field", None)
             ELSE Raised("CarverAPIError", None,
                         "Unexpected response format", None)
    ELSE IF response = "dict without key"
        THEN Returned("empty list")
        ELSE Returned("entries")

FetcherFrame == UNCHANGED <<fn_args, fn_local, rq_vars, pg_vars, qe_vars>>

\* Mutant: the id is not checked; the request is made with whatever came.
FetcherRequiresId_requests ==
    /\ fn_pc = "fetcher"
    /\ IdMissing(fn_args.id)
    /\ fn_calls' = Append(fn_calls, FetcherRequest(fn_args.fetcher,
                                                   fn_args.id, fn_args.limit))
    /\ fn_pc' = "requesting"
    /\ UNCHANGED fn_result
    /\ FetcherFrame

\* if not feed_id: raise ValueError("feed_id is required")
FetcherRequiresId ==
    /\ fn_pc = "fetcher"
    /\ IdMissing(fn_args.id)
    /\ fn_pc' = "raised"
    /\ fn_result' = Raised("ValueError", None,
                           IdRequiredText(fn_args.fetcher), None)
    /\ UNCHANGED fn_calls
    /\ FetcherFrame

\* self._make_request('GET', path, params)
FetcherRequests ==
    /\ fn_pc = "fetcher"
    /\ ~IdMissing(fn_args.id)
    /\ fn_calls' = Append(fn_calls, FetcherRequest(fn_args.fetcher,
                                                   fn_args.id, fn_args.limit))
    /\ fn_pc' = "requesting"
    /\ UNCHANGED fn_result
    /\ FetcherFrame

\* The request returns and the fetcher ends.
FetcherResponds ==
    /\ fn_pc = "requesting"
    /\ \E response \in FetcherResponses :
          LET outcome == FetcherOutcome(fn_args.fetcher, response)
          IN  /\ fn_result' = outcome
              /\ fn_pc' = IF outcome.kind = "return"
                          THEN "returned" ELSE "raised"
    /\ UNCHANGED fn_calls
    /\ FetcherFrame

\* The request raises, and so does the fetcher.
FetcherFails ==
    /\ fn_pc = "requesting"
    /\ fn_pc' = "raised"
    /\ \E error \in ApiErrors :
          fn_result' = Raised(error, None, None, None)
    /\ UNCHANGED fn_calls
    /\ FetcherFrame

Next_fetcher ==
    \/ FetcherRequiresId
    \/ FetcherRequests
    \/ FetcherResponds
    \/ FetcherFails

\* A call fetcher(id, limit) on a client as constructed.
Init_fetcher ==
    /\ fn_pc = "fetcher"
    /\ fn_args \in [fetcher : FetcherNames, id : FetcherIds,
                    limit : 1..MaxLimit]
    /\ fn_local = <<>>
    /\ fn_calls = <<>>
    /\ fn_result = NoResult

InitFetcher == Idle_client /\ Idle_paginate /\ Idle_engine /\ Init_fetcher
SpecFetcher == InitFetcher /\ [][Next_fetcher]_vars

(***************************************************************************)
(* EntryQueryEngine.fetch_content on an engine that filter_by_topic and    *)
(* filter_by_feed load. The method is exercised by                         *)
(* tests/test_query_engine.py (TestFetchContentMethod).                    *)
(***************************************************************************)
\* The s3_client argument, and what get_s3_client() builds from the
\* environment.
S3ClientArgs == {None, "given client"}
S3ClientsFromEnv == {None, "client from env"}

\* data_manager.fetch_contents_from_s3(df, s3_client) on a frame of the
\* engine, whose rows carry no s3_content_md_path: the content column is
\* added, null in every row.
Hydrated(df) ==
    [df EXCEPT !.rows =
        [i \in 1..Len(df.rows) |->
            [c \in DOMAIN df.rows[i] \cup {"content_markdown"} |->
                IF c = "content_markdown" THEN None ELSE df.rows[i][c]]]]

\* The record of fetch_content's calls: get_s3_client() when no client is
\* passed, then the hydration when there is a client.
FetchContentCalls(s3_client, from_env) ==
    (IF s3_client = None THEN <<[fn |-> "get_s3_client"]>> ELSE <<>>)
    \o (IF s3_client # None
            THEN <<[fn |-> "fetch_contents_from_s3", s3_client |-> s3_client]>>
        ELSE IF from_env # None
            THEN <<[fn |-> "fetch_contents_from_s3", s3_client |-> from_env]>>
        ELSE <<>>)

\* Mutant: an Unloaded engine is loaded first, as the filters do.
FetchContent_loads_first ==
    \E s3_client \in S3ClientArgs, from_env \in S3ClientsFromEnv :
        LET name == "fetch_content"
            args == [s3_client |-> s3_client, from_env |-> from_env]
            calls == FetchContentCalls(s3_client, from_env)
        IN  /\ IF calls = <<>> \/ calls[Len(calls)].fn = "get_s3_client"
                  THEN ReturnEnsured(name, args, TRUE, EnsuredFrame)
                  ELSE /\ Assign(Hydrated(EnsuredFrame))
                       /\ last_op' = OpRecord(name, args, calls, "returned",
                                              None)
            /\ UNCHANGED last_export
            /\ QeFrame

\* fetch_content(s3_client=None)
FetchContent ==
    \E s3_client \in S3ClientArgs, from_env \in S3ClientsFromEnv :
        LET name == "fetch_content"
            args == [s3_client |-> s3_client, from_env |-> from_env]
            calls == FetchContentCalls(s3_client, from_env)
        IN  /\ IF ~_initial_data_loaded
                  THEN /\ EngineUnchanged
                       /\ last_op' = OpRecord(name, args, <<>>, "raised",
                                              "ValueError")
               ELSE IF calls = <<>> \/ calls[Len(calls)].fn = "get_s3_client"
                  THEN /\ EngineUnchanged
                       /\ last_op' = OpRecord(name, args, calls, "returned",
                                              None)
                  ELSE /\ Assign(Hydrated(Held(_results)))
                       /\ last_op' = OpRecord(name, args, calls, "returned",
                                              None)
            /\ UNCHANGED last_export
            /\ QeFrame

Next_fetch_content ==
    \/ Chain
    \/ FilterByTopic
    \/ FilterByFeed
    \/ FetchContent

SpecFetchContent == InitEngine /\ [][Next_fetch_content]_vars

(***************************************************************************)
(* Two EntryQueryEngine instances on one data manager. The engine          *)
(* variables describe the instance whose method is called next; the caller *)
(* turns from one instance to the other between calls.                     *)
(***************************************************************************)
\* The caller's next call goes to the other instance.
CallerTurnsToOther ==
    /\ _results' = other_engine._results
    /\ _initial_data_loaded' = other_engine._initial_data_loaded
    /\ other_engine' = [_results |-> _results,
                        _initial_data_loaded |-> _initial_data_loaded]
    /\ UNCHANGED <<caller_df, shared, last_op, last_export>>
    /\ QeFrame

Next_two_engines ==
    \/ Chain
    \/ FilterByTopic
    \/ FilterByFeed
    \/ FilterByActive
    \/ BackendChanges
    \/ CallerTurnsToOther

SpecTwoEngines == InitEngine /\ [][Next_two_engines]_vars

(***************************************************************************)
(* FeedsDataManager.get_hierarchical_view(include_entries=True): one call, *)
(* the loop over the feeds taken one request at a time.                    *)
(***************************************************************************)
\* The feed_id and topic_id arguments.
AssembleFeedIds == {None, "f1", "f2", "f3", "f4", "fx"}
AssembleTopicIds == {None, "t1", "t2", "t9", "tx"}

AssembleFrame == UNCHANGED <<fn_args, rq_vars, pg_vars, qe_vars>>

\* The call raises what the except clauses make of the failure.
AssembleRaises(failure) ==
    LET raised == DataManagerRaises(failure)
    IN  /\ fn_pc' = "raised"
        /\ fn_result' = Raised(raised.error, None, None, raised.cause)

\* get_topics_df, get_feeds_df, the merge and the filter; no feed left
\* ends the call with an empty table.
AssembleJoin ==
    /\ fn_pc = "get_hierarchical_view"
    /\ LET feeds_to_fetch == FeedsToFetch(fn_args.feed_id, fn_args.topic_id)
       IN  /\ fn_local' = [feeds_to_fetch |-> feeds_to_fetch, next |-> 1,
                           all_entries |-> <<>>]
           /\ IF Len(feeds_to_fetch) = 0
                 THEN /\ fn_pc' = "returned"
                      /\ fn_result' = Returned(EmptyFrame)
                 ELSE /\ fn_pc' = "fetching"
                      /\ UNCHANGED fn_result
    /\ UNCHANGED fn_calls
    /\ AssembleFrame

\* get_topics_df or get_feeds_df fails.
AssembleJoinFails ==
    /\ fn_pc = "get_hierarchical_view"
    /\ \E failure \in Failures : AssembleRaises(failure)
    /\ UNCHANGED <<fn_local, fn_calls>>
    /\ AssembleFrame

\* api_client.get_feed_entries for the next feed, and its entries stamped.
AssembleFetchEntries ==
    /\ fn_pc = "fetching"
    /\ fn_local.next <= Len(fn_local.feeds_to_fetch)
    /\ LET pair == fn_local.feeds_to_fetch[fn_local.next]
       IN  /\ fn_calls' = Append(fn_calls, [fn |-> "get_feed_entries",
                                            feed_id |-> pair.feed.id])
           /\ fn_local' = [fn_local EXCEPT
                  !.next = @ + 1,
                  !.all_entries = @ \o FeedRows(fn_args.pub, pair)]
    /\ UNCHANGED <<fn_pc, fn_result>>
    /\ AssembleFrame

\* api_client.get_feed_entries for the next feed raises.
AssembleFetchFails ==
    /\ fn_pc = "fetching"
    /\ fn_local.next <= Len(fn_local.feeds_to_fetch)
    /\ LET pair == fn_local.feeds_to_fetch[fn_local.next]
       IN  fn_calls' = Append(fn_calls, [fn |-> "get_feed_entries",
                                         feed_id |-> pair.feed.id])
    /\ \E error \in ApiErrors : AssembleRaises(error)
    /\ UNCHANGED fn_local
    /\ AssembleFrame

\* The loop is over: the table of the entries gathered.
AssembleReturns ==
    /\ fn_pc = "fetching"
    /\ fn_local.next > Len(fn_local.feeds_to_fetch)
    /\ fn_pc' = "returned"
    /\ fn_result' = Returned(AssembledFrame(fn_local.all_entries))
    /\ UNCHANGED <<fn_local, fn_calls>>
    /\ AssembleFrame

Next_assemble ==
    \/ AssembleJoin
    \/ AssembleJoinFails
    \/ AssembleFetchEntries
    \/ AssembleFetchFails
    \/ AssembleReturns

\* A call get_hierarchical_view(include_entries=True, feed_id, topic_id)
\* while the backend serves the entries `pub`.
Init_assemble ==
    /\ fn_pc = "get_hierarchical_view"
    /\ fn_args \in [feed_id : AssembleFeedIds, topic_id : AssembleTopicIds,
                    pub : SUBSET EntryIds]
    /\ fn_local = <<>>
    /\ fn_calls = <<>>
    /\ fn_result = NoResult

InitAssemble == Idle_client /\ Idle_paginate /\ Idle_engine /\ Init_assemble
SpecAssemble == InitAssemble /\ [][Next_assemble]_vars

(***************************************************************************)
(* Published-date reconciliation in get_entries_df and                     *)
(* get_hierarchical_view (src/carver_feeds/data_manager.py) and in the     *)
(* get_entries_df of scripts/data_manager.py: one call.                    *)
(***************************************************************************)
\* The fields a raw entry may carry; as in Records, the value held under a
\* key is the key's name, so a published_at cell that holds
\* "published_date" holds the raw published_date of its record.
EntryFields == {"id", "published_date", "published_at"}
EntryRecords == DistinctSeqs(EntryFields, Cardinality(EntryFields))

\* The two copies of the data manager.
Variants == {"src", "scripts"}

\* The expected columns of the copy, of those an entry of the model carries.
ExpectedEntryColumns(variant) ==
    IF variant = "src" THEN <<"id", "published_date">>
    ELSE <<"id", "published_at">>

\* _json_to_dataframe(data, expected_columns) for a list of expected columns.
JsonToDataframe(data, expected_columns) ==
    IF data = <<>> THEN EmptyTable(expected_columns)
    ELSE Table(OrderedColumns(expected_columns, DiscoveredColumns(data)), data)

HasColumn(df, column) == \E k \in 1..Len(df.columns) : df.columns[k] = column

\* df[column] = values: the column is replaced where it stands, or added
\* last; values is a function of the row number.
SetColumn(df, column, values) ==
    [columns |-> IF HasColumn(df, column) THEN df.columns
                 ELSE Append(df.columns, column),
     rows |-> [i \in 1..Len(df.rows) |->
                  [c \in DOMAIN df.rows[i] \cup {column} |->
                      IF c = column THEN values[i] ELSE df.rows[i][c]]]]

\* The published_date column copied into published_at.
CopyPublishedDate(df) ==
    SetColumn(df, "published_at",
              [i \in 1..Len(df.rows) |-> df.rows[i]["published_date"]])

\* The reconciliation of src/carver_feeds/data_manager.py.
ReconcileSrc(df) ==
    IF HasColumn(df, "published_date")
        THEN CopyPublishedDate(df)
        ELSE SetColumn(df, "published_at",
                       [i \in 1..Len(df.rows) |-> Absent])

\* The reconciliation of scripts/data_manager.py.
ReconcileScripts(df) ==
    IF HasColumn(df, "published_date")
       /\ \/ ~HasColumn(df, "published_at")
          \/ \A i \in 1..Len(df.rows) : df.rows[i]["published_at"] = Absent
        THEN CopyPublishedDate(df)
        ELSE df

\* The raw fields that hold dates.
DateFields == {"published_date", "published_at"}
\* The Timestamp a raw value that is a date parses to.
Timestamp(value) ==
    IF value = "published_date" THEN "Timestamp of published_date"
    ELSE "Timestamp of published_at"

\* pd.to_datetime(value, errors="coerce") for one cell: a null and a value
\* that does not parse as a date become pd.NaT, a null; unparsed holds the
\* raw fields of the record whose value is no date.
ToDatetime(value, unparsed) ==
    IF value = Absent \/ value \in unparsed THEN Absent ELSE Timestamp(value)

\* for col in date_columns: if col in df.columns:
\*     df[col] = pd.to_datetime(df[col], errors="coerce")
\* (of the date columns, the entries of the model carry published_at).
DatesCoerced(df, unparsed) ==
    IF HasColumn(df, "published_at")
        THEN SetColumn(df, "published_at",
                       [i \in 1..Len(df.rows) |->
                           ToDatetime(df.rows[i]["published_at"],
                                      unparsed[i])])
        ELSE df

ReconcileFrame == UNCHANGED <<fn_args, fn_calls, rq_vars, pg_vars, qe_vars>>

\* df = self._json_to_dataframe(entries_data, expected_columns)
EntriesNormalized ==
    /\ fn_pc = "get_entries_df"
    /\ fn_local' = [df |-> JsonToDataframe(fn_args.entries_data,
                               ExpectedEntryColumns(fn_args.variant))]
    /\ fn_pc' = "reconcile"
    /\ UNCHANGED fn_result
    /\ ReconcileFrame

\* The mapping of published_date to published_at, the conversion of the
\* date columns, and the table returned.  (The is_active conversion and
\* the content fetch that follow act on columns these entries do not
\* carry; fetch_content is False.)
PublishedReconciled ==
    /\ fn_pc = "reconcile"
    /\ fn_pc' = "returned"
    /\ fn_result' = Returned(DatesCoerced(IF fn_args.variant = "src"
                                          THEN ReconcileSrc(fn_local.df)
                                          ELSE ReconcileScripts(fn_local.df),
                                          fn_args.unparsed))
    /\ UNCHANGED fn_local
    /\ ReconcileFrame

Next_reconcile ==
    \/ EntriesNormalized
    \/ PublishedReconciled

\* The client returned entries_data to the data manager of one copy; each
\* date a record carries is a date or a text that does not parse as one.
Init_reconcile ==
    /\ fn_pc = "get_entries_df"
    /\ \E variant \in Variants, n \in 0..MaxRecords :
          \E entries_data \in [1..n -> EntryRecords],
             unparsed \in [1..n -> SUBSET DateFields] :
              /\ \A i \in 1..n : unparsed[i] \subseteq Keys(entries_data[i])
              /\ fn_args = [variant |-> variant,
                            entries_data |-> entries_data,
                            unparsed |-> unparsed]
    /\ fn_local = <<>>
    /\ fn_calls = <<>>
    /\ fn_result = NoResult

InitReconcile == Idle_client /\ Idle_paginate /\ Idle_engine /\ Init_reconcile
SpecReconcile == InitReconcile /\ [][Next_reconcile]_vars

(***************************************************************************)
(* FeedsDataManager._extract_metadata_fields: one call.                    *)
(* A dict is a function over the keys it may hold; Missing marks a key it  *)
(* does not hold, None a key whose value is null.                          *)
(***************************************************************************)
Missing == "<missing>"

\* The keys of extracted_metadata that are read, and the value the backend
\* put under each.
MetaKeys ==
    {"feed_id", "topic_id", "status", "timestamp", "s3_content_md_path",
     "s3_content_html_path", "s3_aggregated_content_md_path"}
MetaValue(key) ==
    CASE key = "feed_id" -> "f9"
      [] key = "topic_id" -> "t9"
      [] key = "status" -> "completed"
      [] key = "timestamp" -> "2024-01-15"
      [] key = "s3_content_md_path" -> "s3://md"
      [] key = "s3_content_html_path" -> "s3://html"
      [] key = "s3_aggregated_content_md_path" -> "s3://agg"

\* extracted_metadata: not a key of the entry, null, or a dict.
NoMetadata(kind) == [kind |-> kind, at |-> [k \in MetaKeys |-> Missing]]
Metadatas ==
    {NoMetadata("absent"), NoMetadata("null")} \cup
    {[kind |-> "dict", at |-> at] :
        at \in UNION {{[k \in MetaKeys |->
                           IF k \in held THEN
                               IF k \in nulls THEN None ELSE MetaValue(k)
                           ELSE Missing] : nulls \in SUBSET held} :
                      held \in SUBSET MetaKeys}}

\* The top-level keys of an entry that the extraction reads or writes.
TopKeys ==
    {"id", "feed_id", "topic_id", "content_status", "content_timestamp",
     "s3_content_md_path", "s3_content_html_path",
     "s3_aggregated_content_md_path"}

\* The entries handed to the extraction: with or without a feed_id of their
\* own (the caller's, in a by-feed fetch) and a topic_id of their own.
RawEntries ==
    {[top |-> [k \in TopKeys |->
                  IF k = "id" THEN "e1"
                  ELSE IF k = "feed_id" THEN feed_id
                  ELSE IF k = "topic_id" THEN topic_id
                  ELSE Missing],
      extracted_metadata |-> meta,
      extracted_metadata_full |-> NoMetadata("absent")] :
        feed_id \in {Missing, "f1"}, topic_id \in {Missing, "t1"},
        meta \in Metadatas}

\* d.get(key, default) and d.get(key).
DictGet(d, key, default) == IF d[key] = Missing THEN default ELSE d[key]
DictGetOrNone(d, key) == DictGet(d, key, None)

\* The key of extracted_metadata that each top-level key is filled from.
MetaKeyOf(top_key) ==
    CASE top_key = "content_status" -> "status"
      [] top_key = "content_timestamp" -> "timestamp"
      [] OTHER -> top_key

\* Mutant: the feed id is read like the other fields, without the entry's
\* own as the default.
ExtractMetadataFields_no_fallback(entry) ==
    IF entry.extracted_metadata.kind # "dict" THEN entry
    ELSE LET meta == entry.extracted_metadata.at
         IN  [top |-> [k \in TopKeys |->
                          IF k = "id" THEN entry.top[k]
                          ELSE DictGetOrNone(meta, MetaKeyOf(k))],
              extracted_metadata |-> entry.extracted_metadata,
              extracted_metadata_full |-> entry.extracted_metadata]

\* _extract_metadata_fields(entry): the dict returned.
ExtractMetadataFields(entry) ==
    IF entry.extracted_metadata.kind # "dict" THEN entry
    ELSE LET meta == entry.extracted_metadata.at
         IN  [top |-> [k \in TopKeys |->
                          IF k = "id" THEN entry.top[k]
                          ELSE IF k = "feed_id"
                              THEN DictGet(meta, "feed_id",
                                           DictGetOrNone(entry.top, "feed_id"))
                          ELSE DictGetOrNone(meta, MetaKeyOf(k))],
              extracted_metadata |-> entry.extracted_metadata,
              extracted_metadata_full |-> entry.extracted_metadata]

ExtractFrame == UNCHANGED <<fn_args, fn_calls, rq_vars, pg_vars, qe_vars>>

\* No extracted_metadata, or a null one: return entry.
ExtractPassesThrough ==
    /\ fn_pc = "_extract_metadata_fields"
    /\ fn_args.entry.extracted_metadata.kind # "dict"
    /\ fn_pc' = "returned"
    /\ fn_result' = Returned(ExtractMetadataFields(fn_args.entry))
    \* the value returned is the caller's dict itself
    /\ fn_local' = [entry |-> fn_args.entry, same_object |-> TRUE]
    /\ ExtractFrame

\* entry_copy = entry.copy(), filled from meta and returned; entry itself
\* is not assigned to.
ExtractCopies ==
    /\ fn_pc = "_extract_metadata_fields"
    /\ fn_args.entry.extracted_metadata.kind = "dict"
    /\ fn_pc' = "returned"
    /\ fn_result' = Returned(ExtractMetadataFields(fn_args.entry))
    /\ fn_local' = [entry |-> fn_args.entry, same_object |-> FALSE]
    /\ ExtractFrame

Next_extract ==
    \/ ExtractPassesThrough
    \/ ExtractCopies

Init_extract ==
    /\ fn_pc = "_extract_metadata_fields"
    /\ fn_args \in [entry : RawEntries]
    /\ fn_local = <<>>
    /\ fn_calls = <<>>
    /\ fn_result = NoResult

InitExtract == Idle_client /\ Idle_paginate /\ Idle_engine /\ Init_extract
SpecExtract == InitExtract /\ [][Next_extract]_vars

(***************************************************************************)
(* _paginate called with any page size a caller can pass: list_entries     *)
(* hands its limit argument to _paginate as it is, 0 included.             *)
(***************************************************************************)
\* The page requests of one call that the model follows.
MaxPageRequests == MaxTotal + 3

\* A call of _paginate(endpoint, params, limit, fetch_all) with limit >= 0.
Call_paginate_any_limit ==
    /\ pg_pc \in {"idle", "returned", "raised"}
    /\ \E limit \in 0..MaxLimit, fetch_all \in BOOLEAN, total \in 0..MaxTotal :
          /\ pg_limit' = limit
          /\ pg_fetch_all' = fetch_all
          /\ pg_total' = total
    /\ pg_pc' = "fetching"
    /\ offset' = 0
    /\ all_results' = <<>>
    /\ page_requests' = <<>>
    /\ pg_result' = NoResult
    /\ UNCHANGED <<rq_vars, qe_vars, fn_vars>>

Next_paginate_any_limit ==
    \/ Call_paginate_any_limit
    \/ (Len(page_requests) < MaxPageRequests /\ FetchPage)
    \/ FetchPageRaises

SpecPaginateAnyLimit == InitPaginate /\ [][Next_paginate_any_limit]_vars

(***************************************************************************)
(* Two Loaded engines holding the same row set, and two filter calls made  *)
(* on them in opposite orders.                                             *)
(***************************************************************************)
\* A call of a filter or of search_entries: the method and its arguments,
\* those of the other methods at their defaults.
FilterCall(op, id, name, dates, is_active, search) ==
    [op |-> op, id |-> id, name |-> name, start_date |-> dates[1],
     end_date |-> dates[2], is_active |-> is_active, keywords |-> search[1],
     search_fields |-> search[2], case_sensitive |-> search[3],
     match_all |-> search[4]]
NoDates == <<NoDate, NoDate>>
NoSearch == <<<<>>, NoFields, FALSE, FALSE>>
EntityCalls(op, ids_and_names) ==
    {FilterCall(op, a[1], a[2], NoDates, TRUE, NoSearch) :
        a \in ids_and_names}
FilterCalls ==
    EntityCalls("filter_by_topic",
                {<<"t1", NoName>>, <<"t2", NoName>>, <<None, <<"a", "b">> >>,
                 <<None, <<"C">> >>, <<"t1", <<"C">> >>})
    \cup EntityCalls("filter_by_feed",
                {<<"f1", NoName>>, <<"f3", NoName>>, <<None, <<"x">> >>,
                 <<None, <<"C">> >>})
    \cup {FilterCall("filter_by_date", None, NoName, d, TRUE, NoSearch) :
             d \in {NoDates, <<1, NoDate>>, <<NoDate, 1>>, <<2, 2>>,
                    <<1, 2>>}}
    \cup {FilterCall("filter_by_active", None, NoName, NoDates, b, NoSearch) :
             b \in BOOLEAN}
    \cup {FilterCall("search_entries", None, NoName, NoDates, TRUE,
                     <<k, <<"title">>, c, a>>) :
             k \in KeywordArgs \ {<<>>, << <<>> >>},
             c \in BOOLEAN, a \in BOOLEAN}
    \cup {FilterCall("search_entries", None, NoName, NoDates, TRUE,
                     << << <<"a">> >>, NoFields, FALSE, FALSE>>)}
    \cup {FilterCall("search_entries", None, NoName, NoDates, TRUE,
                     << << <<"a">> >>, <<"description">>, FALSE, a>>) :
             a \in BOOLEAN}

\* The row sets a Loaded engine may hold with at least one row: the full
\* hierarchy, or what filters left of it.
LoadedFrames ==
    LET full == get_hierarchical_view(EntryIds, None, None)
    IN  {Keep(full, mask) : mask \in [1..Len(full.rows) -> BOOLEAN]}
            \ {Keep(full, [i \in 1..Len(full.rows) |-> FALSE])}

\* The frame a Loaded engine holding df is left with by the call.  (No
\* filter by id is applied here to a frame without columns: only a search
\* repeated on a frame of no row leaves one.)
Applied(call, df) ==
    CASE call.op = "filter_by_topic" ->
             EntityFiltered("topic", df, call.id, call.name)
      [] call.op = "filter_by_feed" ->
             EntityFiltered("feed", df, call.id, call.name)
      [] call.op = "filter_by_date" ->
             DateFiltered(df, call.start_date, call.end_date)
      [] call.op = "filter_by_active" -> ActiveFiltered(df, call.is_active)
      [] call.op = "search_entries" ->
             SearchedFrame(df, call.keywords, call.search_fields,
                           call.case_sensitive, call.match_all)

CommuteFrame ==
    UNCHANGED <<_initial_data_loaded, published, caller_df, shared, last_op,
                last_export, fn_args, fn_local, fn_calls, fn_result,
                rq_vars, pg_vars>>

\* The first call is made on one engine, the second on the other.
EachAppliesOne ==
    /\ fn_pc = "loaded"
    /\ _results' = Holding(Applied(fn_args.first, Held(_results)))
    /\ other_engine' =
          [other_engine EXCEPT !._results =
              Holding(Applied(fn_args.second, Held(other_engine._results)))]
    /\ fn_pc' = "one_applied"
    /\ CommuteFrame

\* Then each engine gets the call the other had.
EachAppliesTheOther ==
    /\ fn_pc = "one_applied"
    /\ _results' = Holding(Applied(fn_args.second, Held(_results)))
    /\ other_engine' =
          [other_engine EXCEPT !._results =
              Holding(Applied(fn_args.first, Held(other_engine._results)))]
    /\ fn_pc' = "both_applied"
    /\ CommuteFrame

\* The engine that got the second call last gets it once more.
AppliesAgain ==
    /\ fn_pc = "both_applied"
    /\ _results' = Holding(Applied(fn_args.second, Held(_results)))
    /\ UNCHANGED other_engine
    /\ fn_pc' = "applied_again"
    /\ CommuteFrame

Next_commute ==
    \/ EachAppliesOne
    \/ EachAppliesTheOther
    \/ AppliesAgain

Init_commute ==
    /\ published = EntryIds
    /\ \E df \in LoadedFrames :
          /\ _results = Holding(df)
          /\ other_engine = [_results |-> Holding(df),
                             _initial_data_loaded |-> TRUE]
    /\ _initial_data_loaded = TRUE
    /\ caller_df = NoFrame
    /\ shared = FALSE
    /\ last_op = NoOp
    /\ last_export = NoExport
    /\ fn_pc = "loaded"
    /\ fn_args \in [first : FilterCalls, second : FilterCalls]
    /\ fn_local = <<>>
    /\ fn_calls = <<>>
    /\ fn_result = NoResult

InitCommute == Idle_client /\ Idle_paginate /\ Init_commute
SpecCommute == InitCommute /\ [][Next_commute]_vars

(***************************************************************************)
(* Two engines on one data manager: one is given filter_by_topic or        *)
(* filter_by_feed as its first operation, the other the same call after it *)
(* has loaded the full hierarchy.                                          *)
(***************************************************************************)
\* The entity filter calls with an id, a name, or both.
EntityFilterCalls ==
    {c \in [kind : {"topic"}, id : TopicIdArgs, name : TopicNameArgs]
        \cup [kind : {"feed"}, id : FeedIdArgs, name : FeedNameArgs] :
        c.id # None \/ c.name # NoName}

PathsFrame ==
    UNCHANGED <<published, caller_df, shared, last_op, last_export, fn_args,
                fn_local, fn_calls, rq_vars, pg_vars>>

\* The other engine loads the full hierarchy (an export called first).
OtherLoadsFull ==
    /\ fn_pc = "unloaded"
    /\ other_engine' =
          [_results |-> Holding(get_hierarchical_view(published, None, None)),
           _initial_data_loaded |-> TRUE]
    /\ fn_pc' = "other_loaded"
    /\ UNCHANGED <<_results, _initial_data_loaded, fn_result>>
    /\ PathsFrame

\* The engine, Unloaded, gets the call.
FiltersUnloaded ==
    /\ fn_pc = "other_loaded"
    /\ ~_initial_data_loaded
    /\ _results' = Holding(OptimizedPath(fn_args.kind, fn_args.id,
                                         fn_args.name))
    /\ _initial_data_loaded' = TRUE
    /\ fn_pc' = "optimized"
    /\ UNCHANGED <<other_engine, fn_result>>
    /\ PathsFrame

\* The other engine, Loaded, gets the same call.
OtherFiltersLoaded ==
    /\ fn_pc = "optimized"
    /\ LET done == StandardPath(fn_args.kind, Held(other_engine._results),
                                fn_args.id, fn_args.name)
       IN  /\ other_engine' =
                 [other_engine EXCEPT !._results = Holding(done.frame)]
           /\ fn_result' =
                 IF done.outcome = "raised"
                     THEN Raised(done.error, None, None, None)
                     ELSE Returned(None)
    /\ fn_pc' = "both_filtered"
    /\ UNCHANGED <<_results, _initial_data_loaded>>
    /\ PathsFrame

Next_paths ==
    \/ OtherLoadsFull
    \/ FiltersUnloaded
    \/ OtherFiltersLoaded

\* Two new engines over a backend that serves any of the entries.
Init_paths ==
    /\ published \in SUBSET EntryIds
    /\ _results = NoFrame
    /\ _initial_data_loaded = FALSE
    /\ other_engine = NewEngine
    /\ caller_df = NoFrame
    /\ shared = FALSE
    /\ last_op = NoOp
    /\ last_export = NoExport
    /\ fn_pc = "unloaded"
    /\ fn_args \in EntityFilterCalls
    /\ fn_local = <<>>
    /\ fn_calls = <<>>
    /\ fn_result = NoResult

InitPaths == Idle_client /\ Idle_paginate /\ Init_paths
SpecPaths == InitPaths /\ [][Next_paths]_vars

(***************************************************************************)
(* Claims about _make_request, checked under SpecRequest.                  *)
(***************************************************************************)
Ended == rq_pc \in {"returned", "raised"}
LastStatus == statuses[Len(statuses)]
AllStatuses(S) == \A i \in 1..Len(statuses) : statuses[i] \in S
OtherStatuses == {st \in Statuses : st \notin {200, 401, 429} /\ st < 500}

\* C1 as stated: a call answered only by 429 ends with RateLimitError after
\* exactly max_retries HTTP requests (read for clients that retry at all,
\* max_retries >= 1).
C1_Original ==
    (Ended /\ AllStatuses({429}) /\ max_retries >= 1) =>
        /\ rq_result.kind = "raise"
        /\ rq_result.error = "RateLimitError"
        /\ attempts = max_retries

\* C1 amended: a call answered only by 429 ends with RateLimitError after
\* exactly max_retries + 1 HTTP requests (the first attempt and max_retries
\* retries), with one backoff delay before each retry.
C1_AllRateLimited ==
    (Ended /\ AllStatuses({429})) =>
        /\ rq_result.kind = "raise"
        /\ rq_result.error = "RateLimitError"
        /\ attempts = max_retries + 1
        /\ Len(statuses) = attempts
        /\ Len(delays) = max_retries

C1_Witness ==
    /\ rq_pc = "raised"
    /\ max_retries = DEFAULT_MAX_RETRIES
    /\ statuses = <<429, 429, 429, 429>>
    /\ attempts = 4

\* C2: an attempt that receives 401, the first or a later one, is the last
\* attempt: the call has raised AuthenticationError, and the only delays
\* taken are those of the retries before it.
C2_AuthFailsAtOnce ==
    \A i \in 1..Len(statuses) :
        statuses[i] = 401 =>
            /\ i = Len(statuses)
            /\ attempts = i
            /\ rq_pc = "raised"
            /\ rq_result.error = "AuthenticationError"
            /\ Len(delays) = i - 1

C2_Witness ==
    /\ rq_pc = "raised"
    /\ statuses = <<429, 503, 401>>
    /\ Len(delays) = 2

\* The call raised on a 429 or 5xx response: its retries are exhausted.
Exhausted ==
    /\ rq_pc = "raised"
    /\ (LastStatus = 429 \/ LastStatus >= 500)

\* C3 as stated: on exhausted retries the error is RateLimitError after a
\* 429 and CarverAPIError after a 5xx, and either embeds the last body.
C3_Original ==
    Exhausted =>
        /\ LastStatus = 429 => rq_result.error = "RateLimitError"
        /\ LastStatus >= 500 => rq_result.error = "CarverAPIError"
        /\ rq_result.text = last_text

\* C3 amended: on exhausted retries (retry_count = max_retries) the error is
\* RateLimitError after a 429, carrying no response body, and CarverAPIError
\* after a 5xx, embedding the status and the body of that last response.
C3_ExhaustedErrors ==
    Exhausted =>
        /\ retry_count = max_retries
        /\ LastStatus = 429 =>
               /\ rq_result.error = "RateLimitError"
               /\ rq_result.text = None
        /\ LastStatus >= 500 =>
               /\ rq_result.error = "CarverAPIError"
               /\ rq_result.status = LastStatus
               /\ rq_result.text = last_text

C3_Witness ==
    /\ Exhausted
    /\ max_retries = 2
    /\ statuses = <<429, 500, 503>>
    /\ rq_result.text = last_text

\* C4: an attempt that receives a status other than 200, 401, 429 and 5xx,
\* or no response at all, is the last attempt: the call has raised
\* CarverAPIError (with the status and body, or with the transport cause),
\* and the only delays taken are those of the retries before it.  The same
\* holds of a 200 whose body does not parse: response.json() raises a
\* request exception.
C4_NoRetryOfOtherFailures ==
    /\ \A i \in 1..Len(statuses) :
           statuses[i] \in OtherStatuses \cup {NoResponse} =>
               /\ i = Len(statuses)
               /\ attempts = i
               /\ rq_pc = "raised"
               /\ rq_result.error = "CarverAPIError"
               /\ Len(delays) = i - 1
               /\ statuses[i] \in OtherStatuses =>
                      /\ rq_result.status = statuses[i]
                      /\ rq_result.text = last_text
               /\ statuses[i] = NoResponse =>
                      rq_result.cause \in TransportFailures
    /\ \A i \in 1..Len(statuses) :
        (statuses[i] = 200 /\ ~ParsesAsJson(last_text)) =>
            /\ i = Len(statuses)
            /\ rq_pc = "raised"
            /\ rq_result.error = "CarverAPIError"
            /\ rq_result.cause = "JSONDecodeError"
            /\ Len(delays) = i - 1

C4_Witness ==
    /\ rq_pc = "raised"
    /\ statuses = <<500, 429, 404>>
    /\ Len(delays) = 2

\* C5: with max_retries >= 1, a first response of 429 is followed by one
\* backoff delay of at least initial_retry_delay and a second attempt; when
\* that attempt receives 200 the call ends after exactly two attempts, and
\* returns the payload of that response (the body it carries, which parses
\* as JSON).
C5_RetryThenSuccess ==
    (max_retries >= 1 /\ Len(statuses) >= 1 /\ statuses[1] = 429) =>
        /\ Len(statuses) = 1 => rq_pc = "sending"
        /\ Len(delays) >= 1
        /\ delays[1] >= initial_retry_delay
        /\ (Len(statuses) >= 2 /\ statuses[2] = 200) =>
               /\ attempts = 2
               /\ Len(delays) = 1
               /\ ParsesAsJson(last_text) =>
                      /\ rq_pc = "returned"
                      /\ rq_result = Returned(last_text)

C5_Witness ==
    /\ rq_pc = "returned"
    /\ statuses = <<429, 200>>
    /\ rq_result.payload \in JsonBodies

\* C33 as stated: the backoff delay taken before retry number k of a
\* request (k = 0 for the first retry) lies between initial_delay * 2^k and
\* 1.25 * initial_delay * 2^k, both included, and each delay of a request
\* is strictly longer than the one before it.
C33_Original ==
    \A k \in 1..Len(delays) :
        LET base == initial_retry_delay * Pow(RETRY_BACKOFF_FACTOR, k - 1)
        IN  /\ base <= delays[k]
            /\ 4 * delays[k] <= 5 * base
            /\ k > 1 => delays[k] > delays[k - 1]

\* C33 amended: the delay before retry number k lies between
\* initial_delay * 2^k and 1.25 * initial_delay * 2^k, both included; each
\* delay of a request is strictly longer than the one before it when
\* initial_delay is positive, and every delay is 0 when initial_delay is 0.
C33_BackoffGrows ==
    \A k \in 1..Len(delays) :
        LET base == initial_retry_delay * Pow(RETRY_BACKOFF_FACTOR, k - 1)
        IN  /\ base <= delays[k]
            /\ 4 * delays[k] <= 5 * base
            /\ (k > 1 /\ initial_retry_delay > 0) => delays[k] > delays[k - 1]
            /\ initial_retry_delay = 0 => delays[k] = 0

\* The first delay was drawn with the largest jitter and the second with
\* none; a third delay followed.
C33_Witness ==
    /\ Len(delays) = 3
    /\ 4 * delays[1] = 5 * initial_retry_delay
    /\ delays[2] = 2 * initial_retry_delay
    /\ delays[3] > delays[2]

\* One call of _make_request under a server that answers every attempt, or
\* a transport that fails it (the request carries a timeout): an attempt
\* that was sent ends.
AttemptEnds ==
    \/ Respond200
    \/ Respond401
    \/ Respond429
    \/ Respond5xx
    \/ RespondOther
    \/ TransportFailure
SpecRequestLive == SpecRequest /\ WF_vars(AttemptEnds)

\* C34: whatever the responses, 429 and 5xx mixed included, one call makes
\* at most max_retries + 1 attempts; the retries of both kinds count on the
\* one retry_count, which only grows during the call; one delay is taken
\* between every two consecutive attempts and none after the last; and the
\* call, once made, returns or raises.
C34_CallTerminates ==
    /\ [](attempts <= max_retries + 1)
    /\ [](retry_count <= max_retries /\ retry_count = Len(delays))
    /\ [](rq_pc = "sending" => attempts = retry_count)
    /\ [](Ended => attempts = Len(delays) + 1)
    /\ [][rq_pc = "sending" => retry_count' >= retry_count]_vars
    /\ (rq_pc = "sending") ~> Ended

\* A call with three retries met 429, 500, 429 and 503 and then raised,
\* after four attempts and three delays.
C34_Witness ==
    /\ max_retries = 3
    /\ statuses = <<429, 500, 429, 503>>
    /\ rq_pc = "raised"
    /\ attempts = 4
    /\ Len(delays) = 3

(***************************************************************************)
(* Claims about _paginate, checked under SpecPaginate.                     *)
(***************************************************************************)
\* C6: with fetch_all false a call that returns has issued exactly one page
\* request, at offset 0 with the given limit, and returns that page: the
\* first min(limit, total) records, whatever the total.
C6_FirstPageOnly ==
    ~pg_fetch_all =>
        /\ Len(page_requests) <= 1
        /\ pg_pc = "returned" =>
               /\ page_requests = <<[limit |-> pg_limit, offset |-> 0]>>
               /\ pg_result.payload =
                      [i \in 1..Min(pg_limit, pg_total) |-> i]

C6_Witness ==
    /\ pg_pc = "returned"
    /\ ~pg_fetch_all
    /\ pg_total >= 2 * pg_limit
    /\ Len(pg_result.payload) = pg_limit

\* C7: with fetch_all true and page size L >= 1 over T records, a call that
\* returns has issued exactly floor(T/L) + 1 requests, the i-th with limit L
\* and offset (i-1)*L, and returns the T records, each once, in backend
\* order.
C7_AllPages ==
    (pg_pc = "returned" /\ pg_fetch_all) =>
        /\ Len(page_requests) = (pg_total \div pg_limit) + 1
        /\ \A i \in 1..Len(page_requests) :
               page_requests[i] =
                   [limit |-> pg_limit, offset |-> (i - 1) * pg_limit]
        /\ pg_result.payload = [i \in 1..pg_total |-> i]

\* Two and a half pages: the 2500 records at page size 1000, scaled.
C7_Witness ==
    /\ pg_pc = "returned"
    /\ pg_fetch_all
    /\ pg_total = 5
    /\ pg_limit = 2
    /\ Len(page_requests) = 3
    /\ Len(pg_result.payload) = 5

(***************************************************************************)
(* Claims about _paginate with any page size, checked under                *)
(* SpecPaginateAnyLimit.                                                   *)
(***************************************************************************)
\* What a fetch_all call over pg_total records does when it stops at the
\* first page shorter than the page size: it makes at most pg_total + 1
\* page requests, none at an offset beyond the records, returns every
\* record when it returns, and ends with the error, holding no list, when a
\* page request fails.
StopsAtFirstShortPage ==
    /\ Len(page_requests) <= pg_total + 1
    /\ \A i \in 1..Len(page_requests) : page_requests[i].offset <= pg_total
    /\ pg_pc = "returned" => pg_result.payload = BackendRecords(pg_total)
    /\ pg_pc = "raised" => pg_result.kind = "raise"

\* C35 as stated: with fetch_all true, for every page size the caller may
\* pass, the call stops at the first short page and so terminates.
C35_Original == pg_fetch_all => StopsAtFirstShortPage

\* list_entries(limit=0, fetch_all=True): every page is empty, no page is
\* shorter than the page size, and the loop is still asking for offset 0
\* after more requests than the backend has records.
C35_ZeroLimitLoops ==
    /\ pg_pc = "fetching"
    /\ pg_fetch_all
    /\ pg_limit = 0
    /\ Len(page_requests) = MaxPageRequests
    /\ \A i \in 1..Len(page_requests) : page_requests[i].offset = 0
    /\ all_results = <<>>

\* What holds: the call stops at the first short page for every page size
\* of at least 1.
C35_PositiveLimitStops ==
    (pg_fetch_all /\ pg_limit >= 1) => StopsAtFirstShortPage

(***************************************************************************)
(* Claims about EntryQueryEngine, checked under SpecEngine.                *)
(***************************************************************************)
EntityFilters == {"filter_by_topic", "filter_by_feed"}
ExportNames == {"to_dataframe", "to_dict", "to_json", "to_csv"}
LoadingOps ==
    {"search_entries", "filter_by_date", "filter_by_active"}
        \cup EntityFilters \cup ExportNames

\* The latest operation was a filter, search or export that began on an
\* Unloaded engine and returned.
ReturnedFromUnloaded ==
    /\ last_op.name \in LoadingOps
    /\ ~last_op.was_loaded
    /\ last_op.outcome = "returned"

\* The latest operation was filter_by_topic or filter_by_feed called with
\* neither an id nor a name.
CalledWithoutArgs ==
    /\ last_op.name \in EntityFilters
    /\ last_op.args.id = None
    /\ last_op.args.name = NoName

\* call is a hierarchy fetch for one topic (filter_by_topic) or one feed
\* (filter_by_feed).
SingleEntityFetch(call) ==
    /\ call.fn = "get_hierarchical_view"
    /\ IF last_op.name = "filter_by_topic"
           THEN call.topic_id # None /\ call.feed_id = None
           ELSE call.feed_id # None /\ call.topic_id = None

\* The latest operation took the optimized path: by id, one fetch for that
\* entity; by name, one lookup of all names and then nothing but
\* single-entity fetches.
TookOptimizedPath ==
    LET calls == last_op.calls
    IN  IF last_op.args.id # None
            THEN /\ Len(calls) = 1
                 /\ SingleEntityFetch(calls[1])
                 /\ last_op.args.id \in {calls[1].topic_id, calls[1].feed_id}
            ELSE /\ Len(calls) >= 1
                 /\ calls[1].fn = (IF last_op.name = "filter_by_topic"
                                       THEN "get_topics_df"
                                       ELSE "get_feeds_df")
                 /\ \A i \in 2..Len(calls) : SingleEntityFetch(calls[i])

\* The latest operation took the full path: one unfiltered hierarchy fetch.
TookFullPath == last_op.calls = <<HvCall(None, None)>>

\* C8 as stated: every filter, search or export operation that returns from
\* a call on an Unloaded engine leaves it Loaded, having taken exactly one
\* path: the optimized one for filter_by_topic and filter_by_feed, the full
\* hierarchy for every other operation.
C8_Original ==
    ReturnedFromUnloaded =>
        /\ _initial_data_loaded
        /\ _results # NoFrame
        /\ IF last_op.name \in EntityFilters
               THEN TookOptimizedPath ELSE TookFullPath

\* C8 amended: a filter, search or export operation that returns from a call
\* on an Unloaded engine leaves it Loaded, having taken exactly one path
\* (optimized for filter_by_topic and filter_by_feed, full for the others),
\* except filter_by_topic and filter_by_feed called with neither id nor
\* name, which leave the engine Unloaded and call nothing.
C8_LoadsOnFirstUse ==
    ReturnedFromUnloaded =>
        IF CalledWithoutArgs
            THEN /\ ~_initial_data_loaded
                 /\ _results = NoFrame
                 /\ last_op.calls = <<>>
            ELSE /\ _initial_data_loaded
                 /\ _results # NoFrame
                 /\ IF last_op.name \in EntityFilters
                        THEN TookOptimizedPath ELSE TookFullPath

\* filter_by_topic by a name that two topics carry has loaded an Unloaded
\* engine with one lookup and two single-topic fetches.
C8_Witness ==
    /\ ReturnedFromUnloaded
    /\ last_op.name = "filter_by_topic"
    /\ last_op.args = [id |-> None, name |-> <<"a", "b">>]
    /\ Len(last_op.calls) = 3
    /\ _initial_data_loaded
    /\ Len(Held(_results).rows) = 3

\* The ids of the entries in the engine's row set.
RowIds(slot) == {Held(slot).rows[i].entry_id : i \in 1..Len(Held(slot).rows)}

\* Once Loaded, no operation calls the data manager.
NoCallsWhileLoaded == last_op.was_loaded => last_op.calls = <<>>

\* chain() leaves the engine Unloaded with no row set.
ChainUnloads ==
    last_op.name = "chain" => (~_initial_data_loaded /\ _results = NoFrame)

\* This step is the first operation after chain(), and it returns.
FirstAfterChain ==
    /\ last_op.name = "chain"
    /\ last_op'.name \in LoadingOps
    /\ last_op'.outcome = "returned"

\* This step loads anew: it calls the data manager and leaves the engine
\* Loaded with rows the backend serves now (all of them, after an export).
LoadsAfresh ==
    /\ _initial_data_loaded'
    /\ _results' # NoFrame
    /\ last_op'.calls # <<>>
    /\ RowIds(_results') \subseteq published'
    /\ last_op'.name \in ExportNames => RowIds(_results') = published'

\* C9 as stated: once Loaded no operation calls the data manager until
\* chain(); chain() leaves the engine Unloaded with no row set; the first
\* operation after chain() performs a fresh load.
C9_Original ==
    /\ []NoCallsWhileLoaded
    /\ []ChainUnloads
    /\ [][FirstAfterChain => LoadsAfresh]_vars

\* C9 amended: once Loaded no operation calls the data manager until
\* chain(); chain() leaves the engine Unloaded with no row set; the first
\* operation after chain() performs a fresh load, unless it is
\* filter_by_topic or filter_by_feed called with neither id nor name, which
\* leaves the engine Unloaded.
C9_FreshLoadAfterChain ==
    /\ []NoCallsWhileLoaded
    /\ []ChainUnloads
    /\ [][FirstAfterChain =>
            IF CalledWithoutArgs'
                THEN ~_initial_data_loaded' /\ _results' = NoFrame
                ELSE LoadsAfresh]_vars

\* The caller still holds the four rows of an earlier load; the backend
\* has since stopped serving e2, and to_dict, called on the engine Unloaded
\* again by chain(), has loaded the three rows served now.
C9_Witness ==
    /\ last_op.name = "to_dict"
    /\ ~last_op.was_loaded
    /\ last_op.outcome = "returned"
    /\ caller_df # NoFrame
    /\ RowIds(caller_df) = EntryIds
    /\ published = EntryIds \ {"e2"}
    /\ _initial_data_loaded
    /\ RowIds(_results) = published

\* C10: on a Loaded engine the four exports leave the row set and the
\* loaded flag unchanged; a to_dataframe call returns the rows the one
\* before it returned when no filter, search or chain() came between; and
\* changing the frame to_dataframe returned leaves the engine's row set
\* unchanged.
C10_ExportsLeaveEngineAlone ==
    /\ [][(_initial_data_loaded /\ (ToDataframe \/ ToDict \/ ToJson \/ ToCsv))
            => UNCHANGED <<_results, _initial_data_loaded>>]_vars
    /\ [][(ToDataframe /\ last_export.valid /\ last_export'.valid)
            => last_export'.rows = last_export.rows]_vars
    /\ [][CallerMutatesFrame => UNCHANGED _results]_vars

\* to_dataframe, called on a Loaded engine, returned three rows; the
\* caller has dropped them from its frame and the engine still holds them.
C10_Witness ==
    /\ last_op.name = "to_dataframe"
    /\ last_op.was_loaded
    /\ last_op.outcome = "returned"
    /\ caller_df # NoFrame
    /\ Held(caller_df).rows = <<>>
    /\ last_export.valid
    /\ Len(last_export.rows) = 3
    /\ Held(_results).rows = last_export.rows

\* The ids of the topics whose name contains the given name, whatever the
\* case of the letters.
TopicsNamed(name) ==
    {Topics[i].id : i \in {j \in 1..Len(Topics) :
                              StrContains(Topics[j].name, name, FALSE)}}

\* This step is filter_by_topic(topic_name=...) returning from a call on an
\* Unloaded engine.
TopicByNameOnUnloaded ==
    /\ ~_initial_data_loaded
    /\ last_op'.name = "filter_by_topic"
    /\ last_op'.outcome = "returned"
    /\ last_op'.args.id = None
    /\ last_op'.args.name # NoName
    /\ FilterByTopic

\* C11: when exactly one topic name matches, filter_by_topic by name on an
\* Unloaded engine leaves the rows that filter_by_topic by that topic's id
\* leaves on an Unloaded engine over the same backend.
C11_NameAsId ==
    [][TopicByNameOnUnloaded =>
          \A id \in TopicsNamed(last_op'.args.name) :
              TopicsNamed(last_op'.args.name) = {id}
                  => Held(_results').rows = EntityView("topic", id).rows]_vars

\* filter_by_topic(topic_name="C") has loaded an Unloaded engine with the
\* two entries of topic t2, the only topic with a c in its name.
C11_Witness ==
    /\ ReturnedFromUnloaded
    /\ last_op.name = "filter_by_topic"
    /\ last_op.args = [id |-> None, name |-> <<"C">>]
    /\ TopicsNamed(<<"C">>) = {"t2"}
    /\ RowIds(_results) = {"e3", "e4"}

\* The rows of a frame, as a set.
RowSet(df) == {df.rows[i] : i \in 1..Len(df.rows)}

\* C12: on the row set of a Loaded engine, for every list of keywords and
\* every list of search fields, the rows search_entries keeps with
\* match_all=True are among those it keeps with match_all=False.
C12_AllWithinAny ==
    _initial_data_loaded =>
        \A keywords \in KeywordArgs, search_fields \in SearchFieldArgs,
           case_sensitive \in BOOLEAN :
            RowSet(SearchedFrame(Held(_results), keywords, search_fields,
                                 case_sensitive, TRUE))
                \subseteq
            RowSet(SearchedFrame(Held(_results), keywords, search_fields,
                                 case_sensitive, FALSE))

\* search_entries has left the two entries whose title holds both "a" and
\* "b": what match_all=True keeps of the full view, where match_all=False
\* keeps three rows (e4, titled "c", matches neither).
C12_Witness ==
    LET full == get_hierarchical_view(published, None, None)
        both == SearchedFrame(full, << <<"a">>, <<"b">> >>, <<"title">>,
                              FALSE, TRUE)
        any == SearchedFrame(full, << <<"a">>, <<"b">> >>, <<"title">>,
                             FALSE, FALSE)
    IN  /\ last_op.name = "search_entries"
        /\ last_op.outcome = "returned"
        /\ _initial_data_loaded
        /\ Held(_results) = both
        /\ RowIds(_results) = {"e2", "e3"}
        /\ Len(any.rows) = 3

\* A published timestamp lies in the window: it is there, and within each
\* bound that is given.
InWindow(t, start_date, end_date) ==
    /\ t # NaT
    /\ start_date = NoDate \/ start_date <= t
    /\ end_date = NoDate \/ t <= end_date

\* The rows of df whose published timestamp lies in the window.
RowsInWindow(df, start_date, end_date) ==
    {r \in RowSet(df) : InWindow(r.entry_published_at, start_date, end_date)}

\* filter_by_date(start) then filter_by_date(end) leaves the rows that one
\* filter_by_date(start, end) leaves.
DateComposes(df, start_date, end_date) ==
    DateFiltered(DateFiltered(df, start_date, NoDate), NoDate, end_date)
        = DateFiltered(df, start_date, end_date)

\* C13 as stated: for every pair of bounds, given or omitted, filter_by_date
\* keeps exactly the rows whose timestamp is there and within the bounds
\* given, and filtering by start and then by end equals filtering by both.
C13_Original ==
    _initial_data_loaded =>
        \A start_date \in DateArgs, end_date \in DateArgs :
            /\ RowSet(DateFiltered(Held(_results), start_date, end_date))
                   = RowsInWindow(Held(_results), start_date, end_date)
            /\ DateComposes(Held(_results), start_date, end_date)

\* C13 amended: with at least one bound given filter_by_date keeps exactly
\* the rows whose timestamp is there and within the bounds given; with no
\* bound it keeps every row, those without a timestamp too; and filtering
\* by start and then by end equals filtering by both.
C13_DateWindow ==
    _initial_data_loaded =>
        \A start_date \in DateArgs, end_date \in DateArgs :
            /\ IF start_date = NoDate /\ end_date = NoDate
                   THEN DateFiltered(Held(_results), start_date, end_date)
                            = Held(_results)
                   ELSE RowSet(DateFiltered(Held(_results), start_date,
                                            end_date))
                            = RowsInWindow(Held(_results), start_date,
                                           end_date)
            /\ DateComposes(Held(_results), start_date, end_date)

\* filter_by_date(start=1, end=2) has left, of the four rows loaded, the
\* two dated on the bounds themselves and dropped the one without a date
\* and the one dated after the window.
C13_Witness ==
    /\ last_op.name = "filter_by_date"
    /\ last_op.outcome = "returned"
    /\ _initial_data_loaded
    /\ published = EntryIds
    /\ Held(_results) =
           DateFiltered(get_hierarchical_view(published, None, None), 1, 2)
    /\ RowIds(_results) = {"e1", "e2"}

\* The feeds that survive get_hierarchical_view(feed_id, topic_id): those
\* under a topic of the topic list, narrowed to the feed or the topic asked
\* for (the feed winning when both are given).
SurvivingFeeds(feed_id, topic_id) ==
    {i \in 1..Len(Feeds) :
        /\ \E k \in 1..Len(Topics) : Topics[k].id = Feeds[i].topic_id
        /\ feed_id # None => Feeds[i].id = feed_id
        /\ (feed_id = None /\ topic_id # None) => Feeds[i].topic_id = topic_id}

\* The entries the backend serves for the surviving feeds.
ServedEntries(pub, feed_id, topic_id) ==
    {k \in 1..Len(Entries) :
        /\ Entries[k].id \in pub
        /\ \E i \in SurvivingFeeds(feed_id, topic_id) :
               Feeds[i].id = Entries[k].feed}

\* df has one row per served entry, and each row names the feed whose
\* endpoint served its entry, and that feed's topic.
OneRowPerEntryOfItsFeed(df, pub, feed_id, topic_id) ==
    /\ Len(df.rows) = Cardinality(ServedEntries(pub, feed_id, topic_id))
    /\ \A k \in ServedEntries(pub, feed_id, topic_id) :
           \E n \in 1..Len(df.rows) :
               /\ df.rows[n].entry_id = Entries[k].id
               /\ df.rows[n].feed_id = Entries[k].feed
               /\ \E i \in 1..Len(Feeds), j \in 1..Len(Topics) :
                      /\ Feeds[i].id = Entries[k].feed
                      /\ Topics[j].id = Feeds[i].topic_id
                      /\ df.rows[n].feed_name = Feeds[i].name
                      /\ df.rows[n].topic_id = Topics[j].id
                      /\ df.rows[n].topic_name = Topics[j].name

\* This step loads an Unloaded engine with what one get_hierarchical_view
\* call returned, as it is: an export, or a filter by id.
LoadsOneView ==
    /\ ~_initial_data_loaded
    /\ _initial_data_loaded'
    /\ last_op'.name \in ExportNames \cup EntityFilters
    /\ Len(last_op'.calls) = 1
    /\ last_op'.calls[1].fn = "get_hierarchical_view"

\* C14: the table get_hierarchical_view assembles has exactly one row per
\* entry served for each surviving feed, and each row carries the feed_id,
\* feed_name, topic_id and topic_name of the feed it was fetched for,
\* whatever feed or topic the entry's own metadata names.
C14_RowsCarryTheirFeed ==
    [][LoadsOneView =>
          OneRowPerEntryOfItsFeed(Held(_results'), published,
                                  last_op'.calls[1].feed_id,
                                  last_op'.calls[1].topic_id)]_vars

\* One topic, one feed, two entries: filter_by_feed(feed_id="f3") has loaded
\* the view of feed f3, which serves e3 and e4, and the view has two rows,
\* each naming feed f3 and its topic t2.
C14_Witness ==
    /\ ReturnedFromUnloaded
    /\ last_op.name = "filter_by_feed"
    /\ last_op.calls = <<HvCall("f3", None)>>
    /\ _initial_data_loaded
    /\ published = EntryIds
    /\ Len(Held(_results).rows) = 2
    /\ \A n \in 1..2 :
           /\ Held(_results).rows[n].entry_id = <<"e3", "e4">>[n]
           /\ Held(_results).rows[n].feed_id = "f3"
           /\ Held(_results).rows[n].topic_id = "t2"

\* The full view has been loaded; its row for e2 names feed f2 and topic t1,
\* under which e2 was fetched, while e2's metadata names f9 and t2.
C14_WitnessMetadata ==
    /\ ReturnedFromUnloaded
    /\ last_op.name = "to_dataframe"
    /\ _initial_data_loaded
    /\ Len(Held(_results).rows) = 4
    /\ _extract_metadata_fields(Entries[2]).feed_id = "f9"
    /\ _extract_metadata_fields(Entries[2]).topic_id = "t2"
    /\ \E n \in 1..4 :
           /\ Held(_results).rows[n].entry_id = "e2"
           /\ Held(_results).rows[n].feed_id = "f2"
           /\ Held(_results).rows[n].topic_id = "t1"

(***************************************************************************)
(* Claims about content hydration, checked under SpecHydrate.              *)
(***************************************************************************)
\* The call of _handle_s3_fetch has returned or raised.
HydrationEnded == fn_pc \in {"returned", "raised"}

\* The distinct non-null storage paths of the table handed in.
WantedPaths ==
    {fn_args.rows[i].s3_content_md_path : i \in 1..Len(fn_args.rows)}
        \ {None}

\* The batch fetches made, in order.
BatchCalls == SelectSeq(fn_calls, LAMBDA c : c.fn = "fetch_content_batch")

\* C15: when hydration is requested and a client is available, the batch
\* fetch is called once with the distinct non-null paths, each once (and
\* not at all when there are none); the call returns, and each row's body
\* is what the returned mapping gives for its path, null for a null path
\* or a path mapped to null, so rows sharing a path share the body.
C15_HydrationMapsPaths ==
    (HydrationEnded /\ fn_args.fetch_content /\ fn_local.client) =>
        /\ fn_result.kind = "return"
        /\ Len(fn_result.payload) = Len(fn_args.rows)
        /\ IF WantedPaths = {}
               THEN BatchCalls = <<>>
               ELSE /\ Len(BatchCalls) = 1
                    /\ {BatchCalls[1].paths[k] :
                           k \in 1..Len(BatchCalls[1].paths)} = WantedPaths
                    /\ Len(BatchCalls[1].paths) = Cardinality(WantedPaths)
        /\ \A i \in 1..Len(fn_args.rows) :
               fn_result.payload[i].content_markdown =
                   IF fn_args.rows[i].s3_content_md_path = None THEN None
                   ELSE fn_local.content_map[
                            fn_args.rows[i].s3_content_md_path]
        /\ \A i, j \in 1..Len(fn_args.rows) :
               fn_args.rows[i].s3_content_md_path
                       = fn_args.rows[j].s3_content_md_path
                   => fn_result.payload[i].content_markdown
                          = fn_result.payload[j].content_markdown

\* Two rows with two paths: the batch resolved the first and returned null
\* for the second, and the rows hold the content and a null body.
C15_Witness ==
    /\ fn_pc = "returned"
    /\ fn_args.fetch_content
    /\ fn_local.client
    /\ Len(fn_args.rows) = 2
    /\ fn_args.rows[1].s3_content_md_path = "s3://b/1.md"
    /\ fn_args.rows[2].s3_content_md_path = "s3://b/2.md"
    /\ Len(BatchCalls) = 1
    /\ fn_result.payload[1].content_markdown = "content 1"
    /\ fn_result.payload[2].content_markdown = None

\* C16: when hydration is not requested, or is requested but no client was
\* passed and the factory returns none, the call returns a table whose
\* body is null in every row, the rows that arrived with a body included,
\* and the batch fetch is never called.
C16_NoHydrationNullBodies ==
    (HydrationEnded /\ (~fn_args.fetch_content \/ ~fn_local.client)) =>
        /\ fn_result.kind = "return"
        /\ Len(fn_result.payload) = Len(fn_args.rows)
        /\ \A i \in 1..Len(fn_args.rows) :
               fn_result.payload[i].content_markdown = None
        /\ BatchCalls = <<>>

\* Hydration was requested, the factory was asked and returned no client:
\* a row that arrived with a body and a path has a null body.
C16_Witness ==
    /\ fn_pc = "returned"
    /\ fn_args.fetch_content
    /\ ~fn_args.s3_client
    /\ ~fn_local.client
    /\ Len(fn_calls) = 1
    /\ fn_calls[1].fn = "get_s3_client"
    /\ Len(fn_args.rows) >= 1
    /\ fn_args.rows[1].content_markdown # None
    /\ fn_args.rows[1].s3_content_md_path # None
    /\ fn_result.payload[1].content_markdown = None

(***************************************************************************)
(* Claims about the Normalizer, checked under SpecNormalize.               *)
(***************************************************************************)
\* The call has ended and was given a non-empty list of expected columns.
NormalizedWithColumns ==
    /\ fn_pc \in {"returned", "raised"}
    /\ fn_args.expected_columns # NoColumns
    /\ fn_args.expected_columns # <<>>

\* C17: for an empty input list and a non-empty list of expected columns
\* the Normalizer returns a table with no row whose columns are the
\* expected columns, in the given order.
C17_EmptyKeepsColumns ==
    (NormalizedWithColumns /\ fn_args.data = <<>>) =>
        /\ fn_result.kind = "return"
        /\ fn_result.payload.rows = <<>>
        /\ fn_result.payload.columns = fn_args.expected_columns

\* An empty list normalized for the columns name, id: no row, those two
\* columns in that order.
C17_Witness ==
    /\ fn_pc = "returned"
    /\ fn_args.data = <<>>
    /\ fn_args.expected_columns = <<"name", "id">>
    /\ fn_result.payload.columns = <<"name", "id">>
    /\ fn_result.payload.rows = <<>>

\* Every field found in the records handed in.
FieldsFound == UNION {Keys(fn_args.data[i]) : i \in 1..Len(fn_args.data)}

\* The place where a field is first met reading the records in order.
FirstSeen(field) ==
    LET width == Cardinality(RecordFields) + 1
        places == {(i - 1) * width + j :
                      i \in 1..Len(fn_args.data),
                      j \in 1..Cardinality(RecordFields)}
        met == {q \in places :
                   LET i == (q \div width) + 1
                       j == q % width
                   IN  /\ j \in 1..Len(fn_args.data[i])
                       /\ fn_args.data[i][j] = field}
    IN  CHOOSE q \in met : \A r \in met : q <= r

\* C18: for a non-empty list of records the Normalizer returns (it never
\* raises for a missing field) one row per record; the columns are the
\* expected columns in the given order followed by every other field found,
\* in discovery order, none dropped; and a record lacking a column holds
\* the absent marker there.
C18_RecordsKeepEveryField ==
    (NormalizedWithColumns /\ fn_args.data # <<>>) =>
        LET expected == fn_args.expected_columns
            columns == fn_result.payload.columns
            rows == fn_result.payload.rows
            extras == (Len(expected) + 1)..Len(columns)
        IN  /\ fn_result.kind = "return"
            /\ Len(rows) = Len(fn_args.data)
            /\ Len(columns) >= Len(expected)
            /\ SubSeq(columns, 1, Len(expected)) = expected
            /\ {columns[k] : k \in extras}
                   = FieldsFound \ {expected[k] : k \in 1..Len(expected)}
            /\ \A a, b \in extras :
                   a < b => FirstSeen(columns[a]) < FirstSeen(columns[b])
            /\ \A i \in 1..Len(rows) :
                   /\ DOMAIN rows[i] = {columns[k] : k \in 1..Len(columns)}
                   /\ \A c \in DOMAIN rows[i] :
                          rows[i][c] = IF c \in Keys(fn_args.data[i])
                                           THEN c ELSE Absent

\* Two records, the first with extra_field and id, the second with name
\* alone, normalized for name, base_domain: the columns are name,
\* base_domain, extra_field, id, and the first row holds the absent marker
\* under name and under base_domain.
C18_Witness ==
    /\ fn_pc = "returned"
    /\ fn_args.data = << <<"extra_field", "id">>, <<"name">> >>
    /\ fn_args.expected_columns = <<"name", "base_domain">>
    /\ fn_result.payload.columns
           = <<"name", "base_domain", "extra_field", "id">>
    /\ fn_result.payload.rows[1]["name"] = Absent
    /\ fn_result.payload.rows[1]["base_domain"] = Absent
    /\ fn_result.payload.rows[1]["id"] = "id"
    /\ fn_result.payload.rows[2]["name"] = "name"


(***************************************************************************)
(* Claims about get_annotations, checked under SpecAnnotations.            *)
(***************************************************************************)
AnnotationsEnded == fn_pc \in {"returned", "raised"}

\* Exactly one filter is supplied and it is not empty.
OneNonEmptyFilter ==
    \E f \in FilterNames :
       /\ fn_args[f] \notin {NotGiven, <<>>}
       /\ \A g \in FilterNames \ {f} : fn_args[g] = NotGiven

\* text is the ids in order with a comma between neighbours.
IsCommaJoined(text, ids) ==
    /\ Len(text) = 2 * Len(ids) - 1
    /\ \A i \in 1..Len(ids) : text[2 * i - 1] = ids[i]
    /\ \A i \in 1..(Len(ids) - 1) : text[2 * i] = ","

\* C19: get_annotations makes a request exactly when one of feed_entry_ids,
\* topic_ids, user_ids is supplied and non-empty. Otherwise it raises a
\* validation error before any request; when it does request, it sends one
\* GET whose only query parameter is "<filter>_in", the ids joined by commas
\* in the order given.
C19_OneFilterOneRequest ==
    /\ (fn_calls # <<>>) => OneNonEmptyFilter
    /\ AnnotationsEnded =>
          IF OneNonEmptyFilter
          THEN /\ Len(fn_calls) = 1
               /\ fn_calls[1].method = "GET"
               /\ \E f \in FilterNames :
                     /\ fn_args[f] # NotGiven
                     /\ DOMAIN fn_calls[1].params = {ParamName(f)}
                     /\ IsCommaJoined(fn_calls[1].params[ParamName(f)],
                                      fn_args[f])
          ELSE /\ fn_calls = <<>>
               /\ fn_result.kind = "raise"
               /\ fn_result.error = "ValidationError"

\* A call with two ids in one filter has returned after its single request.
C19_Witness ==
    /\ fn_pc = "returned"
    /\ fn_args["topic_ids"] = <<"b", "a">>
    /\ Len(fn_calls) = 1
    /\ fn_calls[1].params["topic_ids_in"] = <<"b", ",", "a">>


\* A filter, a search or an export acts on a Loaded engine whose row set is
\* empty.
ActsOnEmptyRowSet ==
    /\ _initial_data_loaded
    /\ Held(_results).rows = <<>>
    /\ \/ FilterByTopic
       \/ FilterByFeed
       \/ FilterByDate
       \/ FilterByActive
       \/ SearchEntries
       \/ ToDataframe
       \/ ToDict
       \/ ToJson
       \/ ToCsv

\* C20 as stated: on a Loaded engine with an empty row set, every filter
\* (by topic or feed, by id or by name; by date; by active), search and
\* export returns normally with an empty row set; none of them raises.
C20_Original ==
    [][ActsOnEmptyRowSet =>
          /\ last_op'.outcome = "returned"
          /\ _initial_data_loaded'
          /\ Held(_results').rows = <<>>]_vars

\* The case that breaks it: filter_by_topic or filter_by_feed by id on the
\* column-less frame that a name with no match (or an empty hierarchy) left.
C20_IdFilterOnColumnlessFrame ==
    /\ _initial_data_loaded
    /\ Held(_results) = EmptyFrame
    /\ last_op.name \in EntityFilters
    /\ last_op.was_loaded
    /\ last_op.outcome = "raised"
    /\ last_op.error = "KeyError"


\* The operation just ended by raising what a data manager call raised.
LoadFailed == last_op.outcome = "raised" /\ last_op.failure # None

\* C21: an AuthenticationError, RateLimitError or CarverAPIError raised by
\* the transport during a fetch reaches the caller of the query engine as an
\* error of the same kind, and only a failure that is not an API error is
\* replaced, by a CarverAPIError whose cause it is; the failed operation
\* leaves no partial table: the row set and the flag are as before.
C21_ErrorsKeepTheirKind ==
    [][(last_op'.outcome = "raised" /\ last_op'.failure # None) =>
          /\ IF last_op'.failure \in ApiErrors
                THEN /\ last_op'.error = last_op'.failure
                     /\ last_op'.cause = None
                ELSE /\ last_op'.error = "CarverAPIError"
                     /\ last_op'.cause = last_op'.failure
          /\ UNCHANGED <<_results, _initial_data_loaded>>]_vars

\* A rate limit met while loading reached the caller as RateLimitError, and
\* the engine is still Unloaded.
C21_Witness ==
    /\ LoadFailed
    /\ last_op.failure = "RateLimitError"
    /\ last_op.error = "RateLimitError"
    /\ ~_initial_data_loaded

\* A conversion failure reached the caller wrapped.
C21_WitnessWrapped ==
    /\ LoadFailed
    /\ last_op.cause = "ValueError"


(***************************************************************************)
(* Claims about the id-scoped fetchers, checked under SpecFetcher.         *)
(***************************************************************************)
\* C22: get_feed_entries, get_topic_entries and get_user_topic_subscriptions
\* called with an empty (or no) id raise a validation error (ValueError)
\* before any HTTP request is made and change no state of the client.
C22_MissingIdRaisesFirst ==
    (fn_pc # "fetcher" /\ fn_args.id \in {None, ""}) =>
        /\ fn_pc = "raised"
        /\ fn_result.kind = "raise"
        /\ fn_result.error = "ValueError"
        /\ fn_calls = <<>>
        /\ Idle_client

\* get_topic_entries("") has raised, with no request made.
C22_Witness ==
    /\ fn_pc = "raised"
    /\ fn_args.fetcher = "get_topic_entries"
    /\ fn_args.id = ""
    /\ fn_result.text = "topic_id is required"
    /\ fn_calls = <<>>


\* The ids of the topics or feeds whose name contains `name`, whatever the
\* case, in list order.
IdsNamed(kind, name) ==
    LET list == IF kind = "topic" THEN Topics ELSE Feeds
        named == SelectSeq(list, LAMBDA x : StrContains(x.name, name, FALSE))
    IN  [i \in 1..Len(named) |-> named[i].id]

\* This step is filter_by_topic or filter_by_feed by name alone, returning
\* from a call on an Unloaded engine.
ByNameOnUnloaded ==
    /\ ~_initial_data_loaded
    /\ last_op'.name \in EntityFilters
    /\ last_op'.outcome = "returned"
    /\ last_op'.args.id = None
    /\ last_op'.args.name # NoName
    /\ FilterByTopic \/ FilterByFeed

\* The get_hierarchical_view calls among `calls`, in order.
HierarchyFetches(calls) ==
    SelectSeq(calls, LAMBDA c : c.fn = "get_hierarchical_view")

\* C27: filter_by_topic or filter_by_feed by name on an Unloaded engine
\* resolves the name against all topic or feed names. With no match the
\* engine becomes Loaded with an empty row set and no hierarchy fetch is
\* made; with k >= 2 matches exactly k hierarchy fetches are made, one per
\* matching entity, and the row set is the concatenation of their results.
C27_NameResolution ==
    [][ByNameOnUnloaded =>
          LET kind == IF last_op'.name = "filter_by_topic"
                      THEN "topic" ELSE "feed"
              ids == IdsNamed(kind, last_op'.args.name)
              fetches == HierarchyFetches(last_op'.calls)
          IN  /\ _initial_data_loaded'
              /\ Len(ids) = 0 =>
                    /\ Held(_results').rows = <<>>
                    /\ fetches = <<>>
              /\ Len(ids) >= 2 =>
                    /\ Len(fetches) = Len(ids)
                    /\ \A i \in 1..Len(ids) :
                          fetches[i] = IF kind = "topic"
                                       THEN HvCall(None, ids[i])
                                       ELSE HvCall(ids[i], None)
                    /\ Held(_results').rows =
                          Flatten([i \in 1..Len(ids) |->
                                      EntityView(kind, ids[i]).rows])]_vars

\* filter_by_feed(feed_name="x") has loaded an Unloaded engine by two
\* fetches, of f1 and of f2, and holds the entries of both.
C27_Witness ==
    /\ ReturnedFromUnloaded
    /\ last_op.name = "filter_by_feed"
    /\ last_op.args = [id |-> None, name |-> <<"x">>]
    /\ HierarchyFetches(last_op.calls) =
          <<HvCall("f1", None), HvCall("f2", None)>>
    /\ RowIds(_results) = {"e1", "e2"}

\* filter_by_topic(topic_name="z") has left the engine Loaded and empty.
C27_WitnessNoMatch ==
    /\ ReturnedFromUnloaded
    /\ last_op.name = "filter_by_topic"
    /\ last_op.args = [id |-> None, name |-> <<"z">>]
    /\ _initial_data_loaded
    /\ Held(_results).rows = <<>>

\* The columns a search over search_fields reads in df: the resolved fields
\* that are columns of df.
ColumnsSearched(df, search_fields) ==
    {c \in {"entry_title", "entry_content_markdown", "entry_link"} :
        /\ df.has_columns
        /\ \E f \in 1..Len(ActualFields(search_fields)) :
              ActualFields(search_fields)[f] = c}

\* The value of the column is there and holds the keyword.
ValueHolds(row, column, keyword, case_sensitive) ==
    /\ Cell(row, column) # NullText
    /\ StrContains(Cell(row, column), keyword, case_sensitive)

\* The rows of df in which every keyword (match_all) or some keyword (not
\* match_all) satisfies Matches(row, column, keyword) in a column searched.
RowsMatching(df, keywords, columns, match_all, Matches(_, _, _)) ==
    {r \in RowSet(df) :
        IF match_all
            THEN \A k \in 1..Len(keywords) : \E c \in columns :
                     Matches(r, c, keywords[k])
            ELSE \E k \in 1..Len(keywords) : \E c \in columns :
                     Matches(r, c, keywords[k])}

KnownFields(search_fields) ==
    SelectSeq(search_fields, LAMBDA f : f \in RecognizedFields)

\* C29: if none of the field names passed to search_entries is recognized,
\* the call raises nothing, returns the engine and leaves the row set as it
\* was after the load; unrecognized names among recognized ones are skipped
\* and the search runs on the recognized ones only.
C29_UnknownFieldsSkipped ==
    /\ (last_op.name = "search_entries" /\ last_op.was_loaded)
          => last_op.outcome = "returned"
    /\ _initial_data_loaded =>
          \A keywords \in KeywordArgs, case_sensitive \in BOOLEAN,
             match_all \in BOOLEAN :
             \A search_fields \in SearchFieldArgs \ {NoFields} :
                SearchedFrame(Held(_results), keywords, search_fields,
                              case_sensitive, match_all)
                = IF KnownFields(search_fields) = <<>>
                      THEN Held(_results)
                      ELSE SearchedFrame(Held(_results), keywords,
                                         KnownFields(search_fields),
                                         case_sensitive, match_all)

\* search_entries("B", ["bogus"], case_sensitive=True) has loaded the engine
\* and left all four rows, where the same search over ["bogus", "title"]
\* runs on the titles and keeps none.
C29_Witness ==
    LET full == get_hierarchical_view(published, None, None)
        bogus == SearchedFrame(full, << <<"B">> >>, <<"bogus">>, TRUE, FALSE)
        mixed == SearchedFrame(full, << <<"B">> >>, <<"bogus", "title">>,
                               TRUE, FALSE)
    IN  /\ last_op.name = "search_entries"
        /\ last_op.outcome = "returned"
        /\ ~last_op.was_loaded
        /\ published = EntryIds
        /\ Held(_results) = bogus
        /\ Len(Held(_results).rows) = Cardinality(EntryIds)
        /\ mixed.rows = <<>>

\* The rows of df whose entry active flag is b.
RowsFlagged(df, b) == {r \in RowSet(df) : r.entry_is_active = b}

\* C32: on the row set of a Loaded engine filter_by_active(b) keeps exactly
\* the rows whose entry active flag equals b, in their order; the rows kept
\* for True and those kept for False are disjoint and together are every
\* row of the row set; a filter_by_active call that returns on a Loaded
\* engine leaves one of the two.
C32_ActivePartition ==
    /\ [](_initial_data_loaded =>
            LET df == Held(_results)
                on == ActiveFiltered(df, TRUE)
                off == ActiveFiltered(df, FALSE)
            IN  /\ RowSet(on) = RowsFlagged(df, TRUE)
                /\ RowSet(off) = RowsFlagged(df, FALSE)
                /\ on.rows = SelectSeq(df.rows, LAMBDA r : r.entry_is_active)
                /\ off.rows = SelectSeq(df.rows, LAMBDA r : ~r.entry_is_active)
                /\ RowSet(on) \cap RowSet(off) = {}
                /\ RowSet(on) \cup RowSet(off) = RowSet(df))
    /\ [][(_initial_data_loaded /\ last_op'.name = "filter_by_active"
             /\ last_op'.outcome = "returned")
            => \E b \in BOOLEAN :
                   _results' = Holding(ActiveFiltered(Held(_results), b))]_vars

\* filter_by_active(False) on a Loaded engine has left the one inactive
\* entry.
C32_Witness ==
    /\ last_op.name = "filter_by_active"
    /\ last_op.was_loaded
    /\ last_op.outcome = "returned"
    /\ RowIds(_results) = {"e2"}

\* filter_by_active(True) on a Loaded engine has kept e3, which arrived
\* without a flag, beside e1.
C32_WitnessNoFlag ==
    /\ last_op.name = "filter_by_active"
    /\ last_op.was_loaded
    /\ last_op.outcome = "returned"
    /\ RowIds(_results) = {"e1", "e3"}

\* C36: in every state of the engine, after any filters, searches, exports
\* and chain() calls, returned or raised, the loaded flag is set exactly
\* when a row set exists: Unloaded holds none, Loaded holds one, possibly
\* empty.
C36_LoadedIffRowSet ==
    /\ _initial_data_loaded <=> _results # NoFrame
    /\ other_engine._initial_data_loaded <=> other_engine._results # NoFrame

\* An operation raised on a Loaded engine that holds an empty row set, and
\* the engine is Loaded still.
C36_Witness ==
    /\ last_op.outcome = "raised"
    /\ last_op.was_loaded
    /\ _initial_data_loaded
    /\ _results # NoFrame
    /\ Held(_results).rows = <<>>

\* A load failed after chain() and the engine holds no row set.
C36_WitnessUnloaded ==
    /\ LoadFailed
    /\ ~_initial_data_loaded
    /\ _results = NoFrame
    /\ caller_df # NoFrame

\* C37: while the engine stays Loaded no step adds a row to its row set:
\* the rows after a filter or a search are rows of the row set before it, in
\* the same order, and a row that was removed is back only after chain()
\* and a new load.
C37_RowsOnlyLeave ==
    [][(_initial_data_loaded /\ _initial_data_loaded') =>
          LET before == Held(_results).rows
              after == Held(_results').rows
          IN  /\ RowSet(Held(_results')) \subseteq RowSet(Held(_results))
              /\ \E mask \in [1..Len(before) -> BOOLEAN] :
                     after = MaskedRows(before, mask, 1)]_vars

\* filter_by_date on a Loaded engine has left e1 alone.
C37_Witness ==
    /\ last_op.name = "filter_by_date"
    /\ last_op.was_loaded
    /\ last_op.outcome = "returned"
    /\ RowIds(_results) = {"e1"}

\* A failed load leaves the engine as it was: the operation raises the
\* error of the data manager, the engine is Unloaded still and holds no
\* row set.
FailedLoadKeepsNothing ==
    (~_initial_data_loaded /\ last_op'.outcome = "raised") =>
        /\ last_op'.failure # None
        /\ last_op'.error \in ApiErrors
        /\ last_op'.calls # <<>>
        /\ ~_initial_data_loaded'
        /\ _results' = NoFrame

\* The operation of this step is filter_by_topic or filter_by_feed called
\* with neither id nor name.
NextCalledWithoutArgs ==
    /\ last_op'.name \in EntityFilters
    /\ last_op'.args.id = None
    /\ last_op'.args.name = NoName

\* The operation of this step began Unloaded and called the data manager,
\* and leaves the engine Loaded when it returns.
LoadsAgain ==
    /\ ~last_op'.was_loaded
    /\ last_op'.calls # <<>>
    /\ last_op'.outcome = "returned" => _initial_data_loaded'

\* C39 as stated: when a data manager call fails while an operation is
\* loading an Unloaded engine, on the first call or on a later one of a
\* name that matched several entities, the operation raises the error, the
\* engine is Unloaded still and holds no row set, and the filter, search or
\* export operation that follows attempts the load again.
C39_Original ==
    /\ [][FailedLoadKeepsNothing]_vars
    /\ [][(LoadFailed /\ last_op'.name \in LoadingOps) => LoadsAgain]_vars

\* C39 amended: the same, except that filter_by_topic and filter_by_feed
\* called with neither id nor name after the failed load return at once,
\* call nothing and leave the engine Unloaded.
C39_FailedLoadLeavesUnloaded ==
    /\ [][FailedLoadKeepsNothing]_vars
    /\ [][(LoadFailed /\ last_op'.name \in LoadingOps) =>
            IF NextCalledWithoutArgs
                THEN /\ last_op'.outcome = "returned"
                     /\ last_op'.calls = <<>>
                     /\ ~_initial_data_loaded'
                     /\ _results' = NoFrame
                ELSE LoadsAgain]_vars

\* filter_by_feed by a name that two feeds carry failed on the fetch of the
\* second feed: the lookup and the first fetch had been made, and the
\* engine holds nothing.
C39_Witness ==
    /\ LoadFailed
    /\ last_op.name = "filter_by_feed"
    /\ last_op.args = [id |-> None, name |-> <<"x">>]
    /\ Len(last_op.calls) = 3
    /\ ~_initial_data_loaded
    /\ _results = NoFrame

(***************************************************************************)
(* Claims about fetch_content, checked under SpecFetchContent.             *)
(***************************************************************************)
\* The calls of the last operation that went to `fn`.
CallsTo(fn) == {k \in 1..Len(last_op.calls) : last_op.calls[k].fn = fn}

\* C23: fetch_content hydrates only a Loaded engine. On an Unloaded engine it
\* raises ValueError, triggers no load and no storage fetch and leaves the
\* engine Unloaded; on a Loaded engine it returns the engine, having called
\* the data manager's hydration exactly once when a storage client is passed
\* or can be built from the environment, and not at all, without error,
\* when none is available.
C23_HydratesOnlyLoaded ==
    last_op.name = "fetch_content" =>
        IF ~last_op.was_loaded
            THEN /\ last_op.outcome = "raised"
                 /\ last_op.error = "ValueError"
                 /\ last_op.calls = <<>>
                 /\ ~_initial_data_loaded
                 /\ _results = NoFrame
            ELSE /\ last_op.outcome = "returned"
                 /\ _initial_data_loaded
                 /\ CallsTo("get_hierarchical_view") = {}
                 /\ Cardinality(CallsTo("fetch_contents_from_s3")) =
                       IF last_op.args.s3_client = None
                          /\ last_op.args.from_env = None
                       THEN 0 ELSE 1

\* fetch_content() after a filter loaded rows, the client built from the
\* environment: the rows are hydrated by one call.
C23_Witness ==
    /\ last_op.name = "fetch_content"
    /\ last_op.was_loaded
    /\ last_op.args.s3_client = None
    /\ last_op.args.from_env # None
    /\ Cardinality(CallsTo("fetch_contents_from_s3")) = 1
    /\ Len(Held(_results).rows) > 0

\* fetch_content(s3_client) on an Unloaded engine has raised.
C23_WitnessUnloaded ==
    /\ last_op.name = "fetch_content"
    /\ ~last_op.was_loaded
    /\ last_op.outcome = "raised"
    /\ last_op.args.s3_client # None


(***************************************************************************)
(* Claims about two engine instances, checked under SpecTwoEngines.        *)
(***************************************************************************)
\* C24: for two query engine instances on one data manager whose operations
\* interleave in any order, no operation on one instance changes the row
\* set or the loaded flag of the other, so each instance ends as it would
\* have alone against the same backend data.
C24_InstancesIndependent ==
    [][~CallerTurnsToOther => UNCHANGED other_engine]_vars

\* Both instances are Loaded, with different row sets, and the latest call
\* was a filter on this one while the other was already Loaded.
C24_Witness ==
    /\ _initial_data_loaded
    /\ other_engine._initial_data_loaded
    /\ last_op.name \in EntityFilters
    /\ last_op.outcome = "returned"
    /\ RowIds(_results) # RowIds(other_engine._results)
    /\ RowIds(_results) # {}
    /\ RowIds(other_engine._results) # {}


(***************************************************************************)
(* Claims about get_hierarchical_view, checked under SpecAssemble.         *)
(***************************************************************************)
\* The ids of the feeds whose entries were requested, in request order.
RequestedFeeds == [k \in 1..Len(fn_calls) |-> fn_calls[k].feed_id]

\* The topic of the i-th feed is in the fetched topic list.
TopicKnown(i) == \E t \in 1..Len(Topics) : Topics[t].id = Feeds[i].topic_id

\* The place of a known topic in the topic list.
TopicPlace(i) == CHOOSE t \in 1..Len(Topics) : Topics[t].id = Feeds[i].topic_id

\* The i-th feed survives the join and the filter of the call: its topic is
\* known, and it is the feed asked for, or, when no feed is asked for, of
\* the topic asked for.
Survives(i) ==
    /\ TopicKnown(i)
    /\ IF fn_args.feed_id # None THEN Feeds[i].id = fn_args.feed_id
       ELSE IF fn_args.topic_id # None
           THEN Feeds[i].topic_id = fn_args.topic_id
       ELSE TRUE

\* Feed i stands before feed j in the joined table.
BeforeInTable(i, j) ==
    \/ TopicPlace(i) < TopicPlace(j)
    \/ TopicPlace(i) = TopicPlace(j) /\ i < j

\* The place of a feed id in the feed list.
FeedPlace(id) == CHOOSE i \in 1..Len(Feeds) : Feeds[i].id = id

\* C25: the feed or topic filter is applied before any entries are fetched:
\* entries are requested only for feeds that survive the topic join and the
\* filter, once each and in table order, and when the call returns every
\* surviving feed has been requested; with both a feed id and a topic id
\* given only the feed id filters.
C25_FilterBeforeFetch ==
    /\ \A k \in 1..Len(fn_calls) :
          /\ \E i \in 1..Len(Feeds) :
                Feeds[i].id = RequestedFeeds[k] /\ Survives(i)
          /\ \A l \in 1..Len(fn_calls) :
                k < l => /\ RequestedFeeds[k] # RequestedFeeds[l]
                         /\ BeforeInTable(FeedPlace(RequestedFeeds[k]),
                                          FeedPlace(RequestedFeeds[l]))
    /\ fn_pc = "returned" =>
          \A i \in 1..Len(Feeds) :
             Survives(i) => \E k \in 1..Len(fn_calls) :
                               RequestedFeeds[k] = Feeds[i].id

\* Called with feed f3 and topic t1, the call has returned having requested
\* the entries of f3 alone.
C25_Witness ==
    /\ fn_pc = "returned"
    /\ fn_args.feed_id = "f3"
    /\ fn_args.topic_id = "t1"
    /\ RequestedFeeds = <<"f3">>

\* Called with topic t1, the call has returned having requested f1, then f2.
C25_WitnessTopic ==
    /\ fn_pc = "returned"
    /\ fn_args.feed_id = None
    /\ fn_args.topic_id = "t1"
    /\ RequestedFeeds = <<"f1", "f2">>

\* The feeds that name a topic the topic list does not hold.
OrphanFeeds == {Feeds[i].id : i \in {j \in 1..Len(Feeds) : ~TopicKnown(j)}}

\* The rows of the table the call returned.
AssembledRows ==
    IF fn_pc = "returned" THEN fn_result.payload.rows ELSE <<>>

\* C26: a feed whose topic identifier matches no fetched topic contributes no
\* row to the assembled table, causes no error and has no entries request
\* made for it; every row of the table names a topic of the fetched list.
C26_OrphanFeedsExcluded ==
    /\ \A k \in 1..Len(fn_calls) : RequestedFeeds[k] \notin OrphanFeeds
    /\ \A r \in 1..Len(AssembledRows) :
          /\ AssembledRows[r].feed_id \notin OrphanFeeds
          /\ \E t \in 1..Len(Topics) : Topics[t].id = AssembledRows[r].topic_id
    /\ (fn_pc \in {"returned", "raised"} /\ fn_args.feed_id \in OrphanFeeds)
          => \/ fn_pc = "returned" /\ fn_result.payload = EmptyFrame
             \/ /\ fn_pc = "raised"
                /\ fn_calls = <<>>
                /\ fn_local = <<>>

\* Called for the orphan feed f4 while all entries are served, the call has
\* returned an empty table without any entries request.
C26_Witness ==
    /\ fn_pc = "returned"
    /\ fn_args.feed_id = "f4"
    /\ fn_args.pub = EntryIds
    /\ fn_calls = <<>>
    /\ fn_result.payload = EmptyFrame

\* Called without a filter, the call returned rows of the three other feeds.
C26_WitnessAll ==
    /\ fn_pc = "returned"
    /\ fn_args.feed_id = None
    /\ fn_args.topic_id = None
    /\ Len(AssembledRows) = Cardinality(EntryIds)


(***************************************************************************)
(* Claims about the published-date reconciliation, checked under           *)
(* SpecReconcile.                                                          *)
(***************************************************************************)
\* The table returned, and the raw record behind its i-th row.
ReconciledTable == fn_result.payload
RawRecord(i) == fn_args.entries_data[i]

\* The raw field of record i holds a date.
HoldsDate(i, field) ==
    /\ field \in Keys(RawRecord(i))
    /\ field \notin fn_args.unparsed[i]

\* C30 as stated: the resulting table has a published_at column; for a
\* record whose raw published_date is present, published_at equals that
\* value; a null published_at is created only where published_at is absent
\* from the raw record, so a record that arrives with published_at but
\* without published_date keeps its published_at.  (A value is taken to
\* be kept when the cell holds the timestamp it parses to; nothing is
\* asked here of a value that is no date.)
C30_Original ==
    fn_pc = "returned" =>
        /\ HasColumn(ReconciledTable, "published_at")
        /\ \A i \in 1..Len(ReconciledTable.rows) :
              LET published_at == ReconciledTable.rows[i]["published_at"]
              IN  /\ HoldsDate(i, "published_date")
                        => published_at = Timestamp("published_date")
                  /\ (HoldsDate(i, "published_at")
                        /\ "published_date" \notin Keys(RawRecord(i)))
                        => published_at = Timestamp("published_at")

\* The data manager of src was handed one entry with published_at and no
\* published_date, and returned it with a null published_at.
C30_PublishedAtLost ==
    /\ fn_pc = "returned"
    /\ fn_args.variant = "src"
    /\ fn_args.entries_data = << <<"id", "published_at">> >>
    /\ fn_args.unparsed = << {} >>
    /\ ReconciledTable.rows[1]["published_at"] = Absent

\* What the data manager of src does: published_at is the timestamp of
\* the raw published_date of the record, null when the record has none or
\* has one that is no date, whatever published_at the record arrived with.
C30_SrcCopiesPublishedDate ==
    (fn_pc = "returned" /\ fn_args.variant = "src") =>
        /\ HasColumn(ReconciledTable, "published_at")
        /\ \A i \in 1..Len(ReconciledTable.rows) :
              ReconciledTable.rows[i]["published_at"] =
                  IF HoldsDate(i, "published_date")
                  THEN Timestamp("published_date") ELSE Absent


(***************************************************************************)
(* Claims about _extract_metadata_fields, checked under SpecExtract.       *)
(***************************************************************************)
GivenEntry == fn_args.entry
ExtractedEntry == fn_result.payload

\* C31: a record without a metadata object (absent or null) is returned
\* unchanged, as the same object. For a record with one a new record is
\* returned and the input is left as it was; the new record's feed id is
\* the value under the metadata's feed_id key, or the record's own feed id
\* (null when it has none) when the metadata has no such key; its topic id,
\* content status, content timestamp and three storage paths are the values
\* under the metadata's keys, null where the metadata lacks the key,
\* whatever the record held there; the metadata stays with the record.
C31_MetadataExtraction ==
    fn_pc = "returned" =>
        LET meta == GivenEntry.extracted_metadata
        IN  /\ fn_local.entry = GivenEntry
            /\ meta.kind \in {"absent", "null"} =>
                  /\ ExtractedEntry = GivenEntry
                  /\ fn_local.same_object
            /\ meta.kind = "dict" =>
                  /\ ~fn_local.same_object
                  /\ ExtractedEntry.top["id"] = GivenEntry.top["id"]
                  /\ ExtractedEntry.top["feed_id"] =
                        IF meta.at["feed_id"] # Missing
                            THEN meta.at["feed_id"]
                        ELSE IF GivenEntry.top["feed_id"] # Missing
                            THEN GivenEntry.top["feed_id"]
                        ELSE None
                  /\ \A k \in TopKeys \ {"id", "feed_id"} :
                        ExtractedEntry.top[k] =
                            IF meta.at[MetaKeyOf(k)] # Missing
                                THEN meta.at[MetaKeyOf(k)]
                            ELSE None
                  /\ ExtractedEntry.extracted_metadata = meta
                  /\ ExtractedEntry.extracted_metadata_full = meta

\* A by-feed entry whose metadata names a topic and no feed came back with
\* the caller's feed id and the metadata's topic id.
C31_Witness ==
    /\ fn_pc = "returned"
    /\ GivenEntry.top["feed_id"] = "f1"
    /\ GivenEntry.extracted_metadata.kind = "dict"
    /\ GivenEntry.extracted_metadata.at["feed_id"] = Missing
    /\ GivenEntry.extracted_metadata.at["topic_id"] = "t9"
    /\ ExtractedEntry.top["feed_id"] = "f1"
    /\ ExtractedEntry.top["topic_id"] = "t9"
    /\ ExtractedEntry.top["content_status"] = None

\* An entry whose metadata is null came back as it was.
C31_WitnessNull ==
    /\ fn_pc = "returned"
    /\ GivenEntry.extracted_metadata.kind = "null"
    /\ ExtractedEntry = GivenEntry


(***************************************************************************)
(* Claims about the order of filters, checked under SpecCommute.           *)
(***************************************************************************)
\* C38: on a Loaded engine with a non-empty row set, two calls among
\* filter_by_topic, filter_by_feed, filter_by_date, filter_by_active and
\* search_entries leave the same row set in either order, and a call made
\* a second time with the same arguments leaves the row set the first left.
\* The row set is compared, not the columns: search_entries over a field
\* that is no column leaves a frame of no row with its columns when rows
\* were there to drop, and without columns when there were none.
BothHoldTheSameRows ==
    Held(_results).rows = Held(other_engine._results).rows
C38_FiltersCommute ==
    /\ fn_pc = "both_applied" => BothHoldTheSameRows
    /\ fn_pc = "applied_again" => BothHoldTheSameRows

\* filter_by_topic(t1) and search_entries(["a"], title) were made in both
\* orders on the full hierarchy and left e1 and e2 each time.
C38_Witness ==
    /\ fn_pc = "both_applied"
    /\ fn_args.first.op = "filter_by_topic"
    /\ fn_args.first.id = "t1"
    /\ fn_args.second.op = "search_entries"
    /\ fn_args.second.keywords = << <<"a">> >>
    /\ fn_args.second.search_fields = <<"title">>
    /\ ~fn_args.second.case_sensitive
    /\ RowIds(_results) = {"e1", "e2"}
    /\ RowIds(other_engine._results) = {"e1", "e2"}

\* filter_by_date(1, 2) was made a second time and e1 and e2 are still the
\* row set.
C38_WitnessTwice ==
    /\ fn_pc = "applied_again"
    /\ fn_args.second.op = "filter_by_date"
    /\ fn_args.second.start_date = 1
    /\ fn_args.second.end_date = 2
    /\ RowIds(_results) = {"e1", "e2"}


(***************************************************************************)
(* Claims about the optimized path, checked under SpecPaths.               *)
(***************************************************************************)
\* The rows the two engines hold are the same.
SameRows ==
    RowSet(Held(_results)) = RowSet(Held(other_engine._results))

\* C40 as stated: against the same backend data, filter_by_topic or
\* filter_by_feed, by id or by name, called first on an Unloaded engine
\* leaves the same set of rows as the same call on an engine that has first
\* loaded the full hierarchy.
C40_Original ==
    fn_pc = "both_filtered" =>
        /\ fn_result.kind = "return"
        /\ SameRows

\* The backend serves no entry: the full hierarchy is a frame without
\* columns, and the call by id, which left the Unloaded engine Loaded and
\* empty, raised KeyError on the engine that had loaded it.
C40_KeyErrorAfterFullLoad ==
    /\ fn_pc = "both_filtered"
    /\ published = {}
    /\ fn_args.id # None
    /\ _initial_data_loaded
    /\ Held(_results).rows = <<>>
    /\ fn_result.kind = "raise"
    /\ fn_result.error = "KeyError"

\* What holds: whenever the call on the engine that loaded the full
\* hierarchy returns, the two engines hold the same rows; it returns
\* whenever the full hierarchy has a row or the call is by name alone.
C40_SameRowsWhenReturned ==
    fn_pc = "both_filtered" =>
        /\ fn_result.kind = "return" => SameRows
        /\ (fn_args.id = None
              \/ get_hierarchical_view(published, None, None).rows # <<>>)
               => fn_result.kind = "return"

\* filter_by_feed(feed_name="x") left e1 and e2 on both engines.
C40_WitnessSame ==
    /\ fn_pc = "both_filtered"
    /\ fn_args = [kind |-> "feed", id |-> None, name |-> <<"x">>]
    /\ published = EntryIds
    /\ RowIds(_results) = {"e1", "e2"}
    /\ RowIds(other_engine._results) = {"e1", "e2"}

=============================================================================
